---- MODULE Spec2Model ----
(***************************************************************************)
(* A model of the Stele covenant protocol core (Rust implementation):      *)
(* the CCL matcher, evaluator, rate-limit checker, narrowing validator and *)
(* merge operator (src/ccl.rs), and the covenant build / verify lifecycle  *)
(* (src/covenant.rs, src/crypto.rs).                                       *)
(*                                                                         *)
(* Strings are sequences of one-character strings, so that split, trim and *)
(* the segment matcher work on them as the code does.                      *)
(***************************************************************************)
EXTENDS Integers, Sequences, FiniteSets, TLC

VARIABLES
    pattern,      \* match_action / match_resource: the pattern argument
    target,       \* match_action / match_resource: the action / resource argument
    matched,      \* the last matcher call and its return value
    pair,         \* patterns_overlap / is_subset_pattern: the two patterns, the separator
    pairResult,   \* patterns_overlap / is_subset_pattern: the call and its return value
    doc,          \* evaluate / check_rate_limit: the CCLDocument argument
    request,      \* evaluate: the action, resource and context arguments
    evaluation,   \* evaluate: the EvaluationResult returned, if called
    rateArgs,     \* check_rate_limit: metric, current_count, window_start_ms, now_ms
    rateResult,   \* check_rate_limit: the RateLimitResult returned, if called
    parent,       \* validate_narrowing / merge: the parent CCLDocument
    child,        \* validate_narrowing / merge: the child CCLDocument
    narrowing,    \* validate_narrowing: the NarrowingResult returned, if called
    merged,       \* merge: the CCLDocument returned, if called
    clock,        \* the instant chrono::Utc::now returns
    built,        \* build_covenant: its arguments and the Result returned, if called
    covenant,     \* the CovenantDocument the caller holds (its fields are pub)
    tampering,    \* the field of covenant a caller overwrote, if any
    verification, \* verify_covenant: the VerificationResult returned, if called
    restored,     \* deserialize_covenant(&serialize_covenant(&doc)): the Result, if called
    countersigned, \* countersign_covenant: the documents returned, in call order
    reverified,   \* verify_covenant of a restored or countersigned document, if called
    reordering,   \* the order a caller gave the countersignatures of covenant, if any
    creation,     \* create_identity: its options and the Result returned, if called
    identities,   \* the identities create_identity and evolve_identity returned, in order
    evolution,    \* evolve_identity: the identity and options of the last call, its Result
    identityVerification, \* verify_identity: the result for the latest identity, if called
    documents,    \* MemoryStore.documents: the HashMap from id to CovenantDocument
    history,      \* the put and delete calls made on the store, in call order
    storeCall     \* the last Store method called, its arguments and its return value

matchVars == <<pattern, target, matched, pair, pairResult>>
evalVars == <<doc, request, evaluation>>
rateVars == <<rateArgs, rateResult>>
algebraVars == <<parent, child, narrowing, merged>>
derivedVars == <<restored, countersigned, reverified, reordering>>
covenantVars == <<clock, built, covenant, tampering, verification, derivedVars>>
identityVars == <<creation, identities, evolution, identityVerification>>
storeVars == <<documents, history, storeCall>>
vars == <<matchVars, evalVars, rateVars, algebraVars, covenantVars, identityVars, storeVars>>

\* Option<T>: None, or Some(x).
None == <<>>
Some(x) == <<x>>


(***************************************************************************)
(* Bounds of the model                                                     *)
(***************************************************************************)
\* Greatest number of segments of a generated pattern or target.
MaxSegs == 3
\* Greatest number of statements of an evaluated document.
MaxStmts == 2
\* Greatest number of limit statements of a rate-limited document.
MaxLimits == 2
\* Greatest number of statements of a parent or child document.
MaxFamilyStmts == 2

(***************************************************************************)
(* String helpers (Rust std: str::split, str::trim_matches, str::contains) *)
(***************************************************************************)
\* s.split(sep): the pieces between the separators; always at least one piece.
RECURSIVE split(_, _)
split(s, sep) ==
    IF \A i \in 1..Len(s) : s[i] # sep
    THEN <<s>>
    ELSE LET i == CHOOSE k \in 1..Len(s) : s[k] = sep /\ \A j \in 1..(k - 1) : s[j] # sep
         IN  <<SubSeq(s, 1, i - 1)>> \o split(SubSeq(s, i + 1, Len(s)), sep)

\* s.trim_matches(c): s without its leading and trailing runs of c.
RECURSIVE trim_matches(_, _)
trim_matches(s, c) ==
    IF Len(s) > 0 /\ s[1] = c THEN trim_matches(Tail(s), c)
    ELSE IF Len(s) > 0 /\ s[Len(s)] = c THEN trim_matches(SubSeq(s, 1, Len(s) - 1), c)
    ELSE s

\* s.contains(c) for a character c.
contains_char(s, c) == \E i \in 1..Len(s) : s[i] = c

\* parts.join(sep)
RECURSIVE join(_, _)
join(parts, sep) ==
    IF Len(parts) = 0 THEN <<>>
    ELSE IF Len(parts) = 1 THEN parts[1]
    ELSE parts[1] \o <<sep>> \o join(Tail(parts), sep)

\* The sequences over S of length at most n.
SeqsUpTo(S, n) == UNION {[1..k -> S] : k \in 0..n}

Star == <<"*">>
DoubleStar == <<"*", "*">>

(***************************************************************************)
(* CCL matcher (ccl.rs)                                                    *)
(***************************************************************************)
\* A matcher that does not skip the trailing ** segments.
skip_trailing_none(pat, pi) == pi

\* The index after the trailing run of ** segments that starts at pi.
RECURSIVE skip_trailing(_, _)
skip_trailing(pat, pi) ==
    IF pi <= Len(pat) /\ pat[pi] = DoubleStar THEN skip_trailing(pat, pi + 1) ELSE pi

\* match_segments: indices are 1-based here (0-based in the code); one turn of
\* the code's while loop is one unfolding.
RECURSIVE match_segments(_, _, _, _)
match_segments(pat, pi, tgt, ti) ==
    IF pi <= Len(pat) /\ ti <= Len(tgt)
    THEN LET p == pat[pi] IN
         IF p = DoubleStar
         THEN IF match_segments(pat, pi + 1, tgt, ti)
              THEN TRUE
              ELSE match_segments(pat, pi, tgt, ti + 1)
         ELSE IF p = Star
         THEN match_segments(pat, pi + 1, tgt, ti + 1)
         ELSE IF p # tgt[ti]
         THEN FALSE
         ELSE match_segments(pat, pi + 1, tgt, ti + 1)
    ELSE skip_trailing(pat, pi) = Len(pat) + 1 /\ ti = Len(tgt) + 1

match_action(pat, action) ==
    match_segments(split(pat, "."), 1, split(action, "."), 1)

match_resource(pat, resource) ==
    LET norm_pattern  == trim_matches(pat, "/")
        norm_resource == trim_matches(resource, "/")
    IN  IF norm_pattern = <<>> /\ norm_resource = <<>> THEN TRUE
        ELSE IF norm_pattern = DoubleStar THEN TRUE
        ELSE IF norm_pattern = Star /\ ~contains_char(norm_resource, "/") THEN TRUE
        ELSE match_segments(split(norm_pattern, "/"), 1, split(norm_resource, "/"), 1)

(***************************************************************************)
(* CCL statements and documents (ccl.rs)                                   *)
(***************************************************************************)
Permit == "Permit"
Deny == "Deny"
Require == "Require"
Limit == "Limit"

\* struct Statement, as parse_permit_deny / parse_require build it.
Rule(type, action, resource, condition) ==
    [stmt_type |-> type, action |-> action, resource |-> resource,
     condition |-> condition, metric |-> None, limit |-> None,
     period |-> None, time_unit |-> None]

\* struct Condition
Cond(field, operator, value) == [field |-> field, operator |-> operator, value |-> value]

\* build_document: the statements and their four views, each in document order.
OfType(statements, type) == SelectSeq(statements, LAMBDA st : st.stmt_type = type)

build_document(statements) ==
    [statements  |-> statements,
     permits     |-> OfType(statements, Permit),
     denies      |-> OfType(statements, Deny),
     obligations |-> OfType(statements, Require),
     limits      |-> OfType(statements, Limit)]

\* specificity: literal 2, * 1, ** 0 per action segment and per segment of the
\* trimmed resource, when that is not empty.
SegmentScore(part) == IF part = DoubleStar THEN 0 ELSE IF part = Star THEN 1 ELSE 2

RECURSIVE SumScores(_)
SumScores(parts) ==
    IF parts = <<>> THEN 0 ELSE SegmentScore(parts[1]) + SumScores(Tail(parts))

specificity(action_pattern, resource_pattern) ==
    LET norm_resource == trim_matches(resource_pattern, "/")
    IN  SumScores(split(action_pattern, "."))
        + (IF norm_resource # <<>> THEN SumScores(split(norm_resource, "/")) ELSE 0)

(***************************************************************************)
(* Condition evaluation (ccl.rs evaluate_condition)                        *)
(***************************************************************************)
Digits == <<"0", "1", "2", "3", "4", "5", "6", "7", "8", "9">>
IsDigit(c) == \E d \in 1..10 : Digits[d] = c
DigitValue(c) == (CHOOSE d \in 1..10 : Digits[d] = c) - 1

RECURSIVE DecimalValue(_)
DecimalValue(s) ==
    IF s = <<>> THEN 0 ELSE 10 * DecimalValue(SubSeq(s, 1, Len(s) - 1)) + DigitValue(s[Len(s)])

\* str::parse::<f64> on the strings of the model (digits and letters): a
\* non-empty run of digits parses to its value, anything else is an error.
parse_f64(s) ==
    IF s # <<>> /\ \A i \in 1..Len(s) : IsDigit(s[i]) THEN Some(DecimalValue(s)) ELSE None

starts_with(s, prefix) ==
    Len(prefix) <= Len(s) /\ SubSeq(s, 1, Len(prefix)) = prefix
ends_with(s, suffix) ==
    Len(suffix) <= Len(s) /\ SubSeq(s, Len(s) - Len(suffix) + 1, Len(s)) = suffix
contains(s, sub) ==
    \E i \in 1..(Len(s) + 1) : i + Len(sub) - 1 <= Len(s) /\ SubSeq(s, i, i + Len(sub) - 1) = sub

\* context is a function from the fields it holds to their values.
evaluate_condition(condition, context) ==
    IF condition.field \notin DOMAIN context THEN FALSE
    ELSE LET field_value == context[condition.field]
             a == parse_f64(field_value)
             b == parse_f64(condition.value)
             op == condition.operator
         IN  CASE op = "="  -> field_value = condition.value
               [] op = "!=" -> field_value # condition.value
               [] op = "<"  -> IF a # None /\ b # None THEN a[1] < b[1] ELSE FALSE
               [] op = ">"  -> IF a # None /\ b # None THEN a[1] > b[1] ELSE FALSE
               [] op = "<=" -> IF a # None /\ b # None THEN a[1] <= b[1] ELSE FALSE
               [] op = ">=" -> IF a # None /\ b # None THEN a[1] >= b[1] ELSE FALSE
               [] op = "contains"     -> contains(field_value, condition.value)
               [] op = "not_contains" -> ~contains(field_value, condition.value)
               [] op = "starts_with"  -> starts_with(field_value, condition.value)
               [] op = "ends_with"    -> ends_with(field_value, condition.value)
               [] op = "matches"      -> field_value = condition.value
               [] OTHER -> FALSE

(***************************************************************************)
(* evaluate (ccl.rs)                                                       *)
(***************************************************************************)
\* The test of each of evaluate's three collecting loops.
statement_matches(stmt, action, resource, context) ==
    /\ match_action(stmt.action, action)
    /\ match_resource(stmt.resource, resource)
    /\ (stmt.condition = None \/ evaluate_condition(stmt.condition[1], context))

matching(stmts, action, resource, context) ==
    SelectSeq(stmts, LAMBDA st : statement_matches(st, action, resource, context))

\* A comparator that ranks by specificity alone, without deny before permit.
compare_matches_by_specificity(a, b) ==
    LET spec_a == specificity(a.action, a.resource)
        spec_b == specificity(b.action, b.resource)
    IN  IF spec_b < spec_a THEN "Less"
        ELSE IF spec_b > spec_a THEN "Greater"
        ELSE "Equal"

\* The comparator of evaluate's sort_by: specificity descending, and at equal
\* specificity a deny before a permit.
compare_matches(a, b) ==
    LET spec_a == specificity(a.action, a.resource)
        spec_b == specificity(b.action, b.resource)
    IN  IF spec_b < spec_a THEN "Less"
        ELSE IF spec_b > spec_a THEN "Greater"
        ELSE IF a.stmt_type = Deny /\ b.stmt_type # Deny THEN "Less"
        ELSE IF a.stmt_type # Deny /\ b.stmt_type = Deny THEN "Greater"
        ELSE "Equal"

\* slice::sort_by is a stable sort: x goes after the elements it does not
\* precede.
RECURSIVE insert_sorted(_, _)
insert_sorted(sorted, x) ==
    IF sorted = <<>> THEN <<x>>
    ELSE IF compare_matches(sorted[1], x) = "Greater" THEN <<x>> \o sorted
    ELSE <<sorted[1]>> \o insert_sorted(Tail(sorted), x)

RECURSIVE sort_matches(_)
sort_matches(stmts) ==
    IF stmts = <<>> THEN <<>>
    ELSE insert_sorted(sort_matches(SubSeq(stmts, 1, Len(stmts) - 1)), stmts[Len(stmts)])

DefaultDenyReason == "No matching rules found; default deny"

\* A collection in which matching obligations decide too.
matched_with_obligations(d, action, resource, context) ==
    matching(d.permits, action, resource, context)
        \o matching(d.denies, action, resource, context)
        \o matching(d.obligations, action, resource, context)

\* The permits and denies that decide: matching permits, then matching denies.
matched_permit_deny(d, action, resource, context) ==
    matching(d.permits, action, resource, context)
        \o matching(d.denies, action, resource, context)

evaluate(d, action, resource, context) ==
    LET deciding == matched_permit_deny(d, action, resource, context)
        all_matches == deciding \o matching(d.obligations, action, resource, context)
    IN  IF deciding = <<>>
        THEN [permitted |-> FALSE, matched_rule |-> None, all_matches |-> all_matches,
              reason |-> [text |-> DefaultDenyReason, rule |-> None],
              severity |-> None]
        ELSE LET winner == sort_matches(deciding)[1]
             IN  [permitted |-> winner.stmt_type = Permit,
                  matched_rule |-> Some(winner), all_matches |-> all_matches,
                  reason |-> [text |-> "Matched {:?} rule for {} on {}",
                              rule |-> Some(<<winner.stmt_type, winner.action, winner.resource>>)],
                  severity |-> None]

(***************************************************************************)
(* check_rate_limit (ccl.rs)                                               *)
(***************************************************************************)
UnitSecond == <<"s", "e", "c", "o", "n", "d">>
UnitMinute == <<"m", "i", "n", "u", "t", "e">>
UnitHour == <<"h", "o", "u", "r">>
UnitDay == <<"d", "a", "y">>
Plural(unit) == unit \o <<"s">>

\* time_unit_multiplier
time_unit_multiplier(unit) ==
    CASE unit \in {UnitSecond, Plural(UnitSecond)} -> 1
      [] unit \in {UnitMinute, Plural(UnitMinute)} -> 60
      [] unit \in {UnitHour, Plural(UnitHour)} -> 3600
      [] unit \in {UnitDay, Plural(UnitDay)} -> 86400
      [] OTHER -> 1

\* struct Statement, as parse_limit builds it from
\* "limit <action> <count> per <raw_period> <unit>".
LimitRule(action, count, raw_period, unit) ==
    [stmt_type |-> Limit, action |-> action, resource |-> <<>>,
     condition |-> None, metric |-> Some(action), limit |-> Some(count),
     period |-> Some(raw_period * time_unit_multiplier(unit)), time_unit |-> Some(unit)]

\* i64::MAX. TLC's integers are 32 bits wide: the greatest of them stands for
\* the greatest i64, and every other number of the model is far below it.
I64_MAX == 2147483647

\* Option::unwrap_or
unwrap_or(opt, default) == IF opt = None THEN default ELSE opt[1]

\* A selection in which the last of equally specific limits wins.
more_specific_or_equal(spec, best_specificity) == spec >= best_specificity

\* The test that replaces matched_limit.
more_specific(spec, best_specificity) == spec > best_specificity

\* A window that rolls as soon as it is one period old.
window_rolled_at_period(elapsed, period_ms) == elapsed >= period_ms

\* The test that the window has expired.
window_rolled(elapsed, period_ms) == elapsed > period_ms

\* The loop of check_rate_limit over doc.limits: the index of the limit held in
\* matched_limit after the first n limits (0: none) and best_specificity.
RECURSIVE select_limit(_, _, _)
select_limit(limits, metric, n) ==
    IF n = 0 THEN [index |-> 0, best_specificity |-> -1]
    ELSE LET before == select_limit(limits, metric, n - 1)
             limit_stmt == limits[n]
             spec == specificity(limit_stmt.action, <<>>)
         IN  IF match_action(limit_stmt.action, metric) /\ more_specific(spec, before.best_specificity)
             THEN [index |-> n, best_specificity |-> spec]
             ELSE before

check_rate_limit(d, metric, current_count, window_start_ms, now_ms) ==
    LET chosen == select_limit(d.limits, metric, Len(d.limits)).index
    IN  IF chosen = 0
        THEN [exceeded |-> FALSE, remaining |-> I64_MAX, limit |-> 0]
        ELSE LET limit_stmt == d.limits[chosen]
                 count_limit == unwrap_or(limit_stmt.limit, 0)
                 period_seconds == unwrap_or(limit_stmt.period, 0)
                 period_ms == period_seconds * 1000
                 elapsed == now_ms - window_start_ms
                 left == count_limit - current_count
             IN  IF window_rolled(elapsed, period_ms)
                 THEN [exceeded |-> FALSE, remaining |-> count_limit, limit |-> count_limit]
                 ELSE [exceeded |-> current_count >= count_limit,
                       remaining |-> IF left > 0 THEN left ELSE 0,
                       limit |-> count_limit]

(***************************************************************************)
(* Narrowing (ccl.rs)                                                      *)
(***************************************************************************)
\* str::replace: every non-overlapping occurrence of from, left to right.
RECURSIVE replace(_, _, _)
replace(s, from, to) ==
    IF s = <<>> THEN <<>>
    ELSE IF starts_with(s, from) THEN to \o replace(SubSeq(s, Len(from) + 1, Len(s)), from, to)
    ELSE <<s[1]>> \o replace(Tail(s), from, to)

pattern_to_concrete(pat) == replace(replace(pat, DoubleStar, <<"x">>), Star, <<"x">>)

patterns_overlap(pattern1, pattern2) ==
    IF pattern1 = DoubleStar \/ pattern2 = DoubleStar THEN TRUE
    ELSE IF pattern1 = Star \/ pattern2 = Star THEN TRUE
    ELSE IF pattern1 = pattern2 THEN TRUE
    ELSE LET concrete1 == pattern_to_concrete(pattern1)
             concrete2 == pattern_to_concrete(pattern2)
         IN  IF contains_char(pattern1, "/") \/ contains_char(pattern2, "/")
             THEN match_resource(pattern1, concrete2) \/ match_resource(pattern2, concrete1)
             ELSE match_action(pattern1, concrete2) \/ match_action(pattern2, concrete1)

\* is_subset_segments: indices are 1-based here (0-based in the code).
RECURSIVE is_subset_segments(_, _, _, _)
is_subset_segments(c, ci, p, pi) ==
    IF ci = Len(c) + 1 /\ pi = Len(p) + 1 THEN TRUE
    ELSE IF pi = Len(p) + 1 THEN FALSE
    ELSE IF ci = Len(c) + 1 THEN \A i \in pi..Len(p) : p[i] = DoubleStar
    ELSE LET p_seg == p[pi]
             c_seg == c[ci]
         IN  IF p_seg = DoubleStar
             THEN IF is_subset_segments(c, ci, p, pi + 1)
                  THEN TRUE
                  ELSE is_subset_segments(c, ci + 1, p, pi)
             ELSE IF c_seg = DoubleStar THEN FALSE
             ELSE IF p_seg = Star THEN is_subset_segments(c, ci + 1, p, pi + 1)
             ELSE IF c_seg = Star THEN FALSE
             ELSE IF c_seg # p_seg THEN FALSE
             ELSE is_subset_segments(c, ci + 1, p, pi + 1)

NonEmpty(parts) == SelectSeq(parts, LAMBDA part : part # <<>>)

\* A subset test that takes every ** of the child for broader than the parent.
is_subset_without_double_star(child_pattern, parent_pattern, separator) ==
    IF parent_pattern = DoubleStar THEN TRUE
    ELSE IF \E i \in DOMAIN split(child_pattern, separator) :
                split(child_pattern, separator)[i] = DoubleStar
    THEN FALSE
    ELSE is_subset_segments(NonEmpty(split(child_pattern, separator)), 1,
                            NonEmpty(split(parent_pattern, separator)), 1)

is_subset_pattern(child_pattern, parent_pattern, separator) ==
    IF parent_pattern = DoubleStar THEN TRUE
    ELSE IF child_pattern = DoubleStar /\ parent_pattern # DoubleStar THEN FALSE
    ELSE is_subset_segments(NonEmpty(split(child_pattern, separator)), 1,
                            NonEmpty(split(parent_pattern, separator)), 1)

\* The tests of validate_narrowing.
denied_by(child_permit, parent_deny) ==
    /\ patterns_overlap(child_permit.action, parent_deny.action)
    /\ patterns_overlap(child_permit.resource, parent_deny.resource)

covered_by(child_permit, parent_permit) ==
    /\ is_subset_pattern(child_permit.action, parent_permit.action, ".")
    /\ is_subset_pattern(child_permit.resource, parent_permit.resource, "/")

\* The violations validate_narrowing pushes for one child permit: one for each
\* parent deny it overlaps, then one if the parent has permits and none covers it.
permit_violations(par, child_permit) ==
    LET denying == SelectSeq(par.denies, LAMBDA parent_deny : denied_by(child_permit, parent_deny))
        has_matching_parent ==
            \E i \in 1..Len(par.permits) : covered_by(child_permit, par.permits[i])
    IN  [i \in 1..Len(denying) |->
            [message |-> "Child permits '{}' on '{}' which parent denies",
             action |-> child_permit.action, resource |-> child_permit.resource]]
        \o (IF par.permits # <<>> /\ ~has_matching_parent
            THEN <<[message |-> "Child permit '{}' on '{}' is not a subset of any parent permit",
                    action |-> child_permit.action, resource |-> child_permit.resource]>>
            ELSE <<>>)

RECURSIVE narrowing_violations(_, _, _)
narrowing_violations(par, chi, n) ==
    IF n = 0 THEN <<>>
    ELSE narrowing_violations(par, chi, n - 1) \o permit_violations(par, chi.permits[n])

validate_narrowing(par, chi) ==
    LET violations == narrowing_violations(par, chi, Len(chi.permits))
    IN  [valid |-> violations = <<>>, violations |-> violations]

(***************************************************************************)
(* merge (ccl.rs)                                                          *)
(***************************************************************************)
\* A merge that keeps the higher count.
less_restrictive(count, existing) == count > existing

\* The test that replaces the limit kept for an action.
more_restrictive(count, existing) == count < existing

\* limits_by_action after the first n limits of parent.limits chained with
\* child.limits: a map from action to the limit kept for it.
RECURSIVE limits_by_action(_, _)
limits_by_action(chain, n) ==
    IF n = 0 THEN <<>>
    ELSE LET before == limits_by_action(chain, n - 1)
             limit == chain[n]
             action == limit.action
             keep == IF action \in DOMAIN before
                     THEN IF more_restrictive(limit.limit[1], before[action].limit[1])
                          THEN limit ELSE before[action]
                     ELSE limit
         IN  [a \in DOMAIN before \cup {action} |-> IF a = action THEN keep ELSE before[a]]

\* The orders in which HashMap::into_values may yield the values of map: the
\* iteration order of a std HashMap is unspecified.
into_values(map) ==
    {[i \in 1..Cardinality(DOMAIN map) |-> map[order[i]]] :
        order \in {o \in [1..Cardinality(DOMAIN map) -> DOMAIN map] :
                      \A i, j \in DOMAIN o : i # j => o[i] # o[j]}}

merged_limits(par, chi) ==
    LET chain == par.limits \o chi.limits IN limits_by_action(chain, Len(chain))

\* A merge that leaves out the denies of the parent.
merge_without_parent_denies(par, chi, limit_values) ==
    build_document(chi.denies \o chi.permits \o par.permits
                   \o par.obligations \o chi.obligations \o limit_values)

\* merge, given the order in which the kept limits come out of the map.
merge(par, chi, limit_values) ==
    build_document(par.denies \o chi.denies \o chi.permits \o par.permits
                   \o par.obligations \o chi.obligations \o limit_values)

(***************************************************************************)
(* CCL parser (ccl.rs, struct Parser), over the tokens tokenize produces.  *)
(* A CCL source text is represented by its token sequence, Eof included.   *)
(***************************************************************************)
Token(type, value) == [token_type |-> type, value |-> value]
Keyword(type) == Token(type, <<>>)
EofToken == Token("Eof", <<>>)

\* A parsing step: Ok with the next position and a value, or Err.
ParseOk(pos, value) == [ok |-> TRUE, pos |-> pos, value |-> <<value>>]
ParseErr(pos) == [ok |-> FALSE, pos |-> pos, value |-> <<>>]

\* Parser::current, Parser::advance, Parser::check (positions are 1-based)
current(tokens, pos) == IF pos <= Len(tokens) THEN tokens[pos] ELSE tokens[Len(tokens)]
advance(tokens, pos) == IF pos <= Len(tokens) THEN pos + 1 ELSE pos
check(tokens, pos, tt) == current(tokens, pos).token_type = tt
is_at_end(tokens, pos) == check(tokens, pos, "Eof")

\* Parser::expect
expect(tokens, pos, tt) ==
    IF check(tokens, pos, tt)
    THEN ParseOk(advance(tokens, pos), current(tokens, pos))
    ELSE ParseErr(pos)

RECURSIVE skip_newlines_and_comments(_, _)
skip_newlines_and_comments(tokens, pos) ==
    IF pos <= Len(tokens) /\ (check(tokens, pos, "Newline") \/ check(tokens, pos, "Comment"))
    THEN skip_newlines_and_comments(tokens, pos + 1)
    ELSE pos

\* The ? operator: the rest of the function runs on an Ok, an Err is returned.
and_then(result, rest(_)) == IF result.ok THEN rest(result) ELSE result

\* The while loop of parse_action: the parts after each dot.
RECURSIVE action_parts(_, _, _)
action_parts(tokens, pos, parts) ==
    IF ~check(tokens, pos, "Dot") THEN ParseOk(pos, parts)
    ELSE IF check(tokens, pos + 1, "Identifier")
    THEN action_parts(tokens, pos + 2, Append(parts, current(tokens, pos + 1).value))
    ELSE IF check(tokens, pos + 1, "Wildcard")
    THEN action_parts(tokens, pos + 2, Append(parts, Star))
    ELSE IF check(tokens, pos + 1, "DoubleWildcard")
    THEN action_parts(tokens, pos + 2, Append(parts, DoubleStar))
    ELSE ParseErr(pos + 1)

parse_action(tokens, pos) ==
    IF check(tokens, pos, "DoubleWildcard") THEN ParseOk(advance(tokens, pos), DoubleStar)
    ELSE IF check(tokens, pos, "Wildcard") \/ check(tokens, pos, "Identifier")
    THEN and_then(action_parts(tokens, advance(tokens, pos),
                               <<IF check(tokens, pos, "Wildcard") THEN Star
                                 ELSE current(tokens, pos).value>>),
                  LAMBDA parts : ParseOk(parts.pos, join(parts.value[1], ".")))
    ELSE ParseErr(pos)

parse_resource(tokens, pos) ==
    CASE check(tokens, pos, "StringLit") ->
            ParseOk(advance(tokens, pos), current(tokens, pos).value)
      [] check(tokens, pos, "Wildcard") -> ParseOk(advance(tokens, pos), Star)
      [] check(tokens, pos, "DoubleWildcard") -> ParseOk(advance(tokens, pos), DoubleStar)
      [] check(tokens, pos, "Identifier") ->
            ParseOk(advance(tokens, pos), current(tokens, pos).value)
      [] OTHER -> ParseErr(pos)

\* The while loop of parse_field: ".ident" appended for each dot.
RECURSIVE field_parts(_, _, _)
field_parts(tokens, pos, field) ==
    IF ~check(tokens, pos, "Dot") THEN ParseOk(pos, field)
    ELSE IF ~check(tokens, pos + 1, "Identifier") THEN ParseErr(pos + 1)
    ELSE field_parts(tokens, pos + 2, field \o <<".">> \o current(tokens, pos + 1).value)

parse_field(tokens, pos) ==
    IF ~check(tokens, pos, "Identifier") THEN ParseErr(pos)
    ELSE field_parts(tokens, advance(tokens, pos), current(tokens, pos).value)

parse_value(tokens, pos) ==
    IF check(tokens, pos, "StringLit") \/ check(tokens, pos, "Number")
          \/ check(tokens, pos, "Identifier")
    THEN ParseOk(advance(tokens, pos), current(tokens, pos).value)
    ELSE ParseErr(pos)

parse_condition(tokens, pos) ==
    and_then(parse_field(tokens, pos), LAMBDA field :
    and_then(expect(tokens, field.pos, "Operator"), LAMBDA op_tok :
    and_then(parse_value(tokens, op_tok.pos), LAMBDA value :
    ParseOk(value.pos, Cond(field.value[1], op_tok.value[1].value, value.value[1])))))

\* The optional "when" clause of permit, deny and require.
parse_when(tokens, pos) ==
    IF check(tokens, pos, "When")
    THEN and_then(parse_condition(tokens, advance(tokens, pos)),
                  LAMBDA condition : ParseOk(condition.pos, Some(condition.value[1])))
    ELSE ParseOk(pos, None)

\* The optional "severity <ident>" clause: parsed and dropped.
skip_severity(tokens, pos) ==
    IF check(tokens, pos, "Severity")
    THEN IF check(tokens, advance(tokens, pos), "Identifier")
         THEN advance(tokens, advance(tokens, pos))
         ELSE advance(tokens, pos)
    ELSE pos

\* parse_permit_deny and parse_require: they differ in the statement type.
parse_rule(tokens, pos, stmt_type) ==
    and_then(parse_action(tokens, advance(tokens, pos)), LAMBDA action :
    and_then(expect(tokens, action.pos, "On"), LAMBDA on :
    and_then(parse_resource(tokens, on.pos), LAMBDA resource :
    and_then(parse_when(tokens, resource.pos), LAMBDA condition :
    ParseOk(skip_severity(tokens, condition.pos),
            Rule(stmt_type, action.value[1], resource.value[1], condition.value[1]))))))

parse_permit_deny(tokens, pos) ==
    parse_rule(tokens, pos, IF check(tokens, pos, "Permit") THEN Permit ELSE Deny)

parse_require(tokens, pos) == parse_rule(tokens, pos, Require)

\* str::to_lowercase on the letters of the time units.
UpperCase == <<"A", "C", "D", "E", "H", "I", "M", "N", "O", "R", "S", "T", "U", "Y">>
LowerCase == <<"a", "c", "d", "e", "h", "i", "m", "n", "o", "r", "s", "t", "u", "y">>
to_lowercase(s) ==
    [i \in 1..Len(s) |->
        IF \E k \in 1..Len(UpperCase) : UpperCase[k] = s[i]
        THEN LowerCase[CHOOSE k \in 1..Len(UpperCase) : UpperCase[k] = s[i]]
        ELSE s[i]]

parse_limit(tokens, pos) ==
    and_then(parse_action(tokens, advance(tokens, pos)), LAMBDA action :
    and_then(expect(tokens, action.pos, "Number"), LAMBDA count_tok :
    and_then(expect(tokens, count_tok.pos, "Per"), LAMBDA per :
    and_then(expect(tokens, per.pos, "Number"), LAMBDA period_tok :
    and_then(expect(tokens, period_tok.pos, "TimeUnit"), LAMBDA unit_tok :
    ParseOk(skip_severity(tokens, unit_tok.pos),
            LimitRule(action.value[1],
                      parse_f64(count_tok.value[1].value)[1],
                      parse_f64(period_tok.value[1].value)[1],
                      to_lowercase(unit_tok.value[1].value))))))))

parse_statement(tokens, pos) ==
    CASE check(tokens, pos, "Permit") \/ check(tokens, pos, "Deny") ->
            parse_permit_deny(tokens, pos)
      [] check(tokens, pos, "Require") -> parse_require(tokens, pos)
      [] check(tokens, pos, "Limit") -> parse_limit(tokens, pos)
      [] OTHER -> ParseErr(pos)

\* The while loop of Parser::parse; pos is past newlines and comments.
RECURSIVE parse_statements(_, _, _)
parse_statements(tokens, pos, statements) ==
    IF is_at_end(tokens, pos) THEN ParseOk(pos, statements)
    ELSE and_then(parse_statement(tokens, pos), LAMBDA stmt :
         parse_statements(tokens, skip_newlines_and_comments(tokens, stmt.pos),
                          Append(statements, stmt.value[1])))

\* Result<CCLDocument, _>: the document of the statements, or an Err.
document_of(statements) ==
    IF statements.ok
    THEN [ok |-> TRUE, doc |-> build_document(statements.value[1])]
    ELSE [ok |-> FALSE, doc |-> build_document(<<>>)]

\* parse
parse(tokens) ==
    document_of(parse_statements(tokens, skip_newlines_and_comments(tokens, 1), <<>>))

(***************************************************************************)
(* Strings, bytes and cryptographic primitives (crypto.rs)                 *)
(*                                                                         *)
(* Byte strings are symbolic: <<"zeros", n>> is n zero bytes, <<"rand", k>>*)
(* the k-th 32-byte output of the random generator, <<"pk", sk>> the       *)
(* verifying key of signing key sk, <<"offcurve", k>> 32 bytes that encode *)
(* no curve point, <<"sha256", m>> the digest of m and <<"sig", sk, m>>    *)
(* the Ed25519 signature of m under sk.  SHA-256 is taken to be injective  *)
(* and Ed25519 to be unforgeable; nobody holds a signing key for the       *)
(* all-zero verifying key.                                                 *)
(*                                                                         *)
(* A string that is meant to hold hex is a record of the bytes it spells   *)
(* and of its spelling: lower-case digits, upper-case digits, or "none"    *)
(* for a string of bytes[2] characters that is not hex at all.             *)
(***************************************************************************)
Zeros(n) == <<"zeros", n>>
HexLower(bytes) == [spelling |-> "lower", bytes |-> bytes]
NotHex(n) == [spelling |-> "none", bytes |-> <<"raw", n>>]
EmptyString == HexLower(Zeros(0))

\* Vec<u8>::len
ByteLen(bytes) ==
    CASE bytes[1] = "zeros" -> bytes[2]
      [] bytes[1] = "sig" -> 64
      [] OTHER -> 32

\* Hex digits of zero bytes have no letters: both spellings are one string.
HexUpper(bytes) ==
    IF bytes[1] = "zeros" THEN HexLower(bytes) ELSE [spelling |-> "upper", bytes |-> bytes]

\* str::len, str::is_empty
StrLen(s) == IF s.spelling = "none" THEN s.bytes[2] ELSE 2 * ByteLen(s.bytes)
is_empty(s) == StrLen(s) = 0

\* hex::encode writes lower-case digits; hex::decode accepts both cases.
hex_encode(bytes) == HexLower(bytes)
hex_decode(s) == IF s.spelling = "none" THEN None ELSE Some(s.bytes)

\* char::is_ascii_hexdigit on every character
all_ascii_hexdigit(s) == s.spelling # "none"

\* SigningKey::verifying_key, VerifyingKey::from_bytes, VerifyingKey::as_bytes
verifying_key(signing_key) == <<"pk", signing_key>>
from_bytes(bytes) == IF bytes[1] = "offcurve" THEN None ELSE Some(bytes)

\* crypto::sign
sign(message, signing_key) == <<"sig", signing_key, message>>

\* A verification that only looks at the length of the signature.
verify_length_only(message, signature, vk) == ByteLen(signature) = 64

\* crypto::verify
verify(message, signature, vk) ==
    /\ ByteLen(signature) = 64
    /\ signature[1] = "sig"
    /\ vk = verifying_key(signature[2])
    /\ signature[3] = message

\* crypto::sha256_string
sha256_string(data) == hex_encode(<<"sha256", data>>)

\* Timestamps are strings too: the instant they denote and how they are
\* written: "rfc3339", "lenient" for a text only the two chrono formats of
\* parse_timestamp accept, "invalid" for a text nothing parses.
Timestamp(instant, format) == [instant |-> instant, format |-> format]

\* crypto::timestamp: "%Y-%m-%dT%H:%M:%S%.3fZ", which is RFC 3339
timestamp(now_utc) == Timestamp(now_utc, "rfc3339")

\* chrono::DateTime::parse_from_rfc3339(..).ok()
parse_from_rfc3339(s) == IF s.format = "rfc3339" THEN Some(s.instant) ELSE None

\* covenant.rs parse_timestamp
parse_timestamp(s) ==
    IF parse_from_rfc3339(s) # None THEN parse_from_rfc3339(s)
    ELSE IF s.format = "lenient" THEN Some(s.instant)
    ELSE None

(***************************************************************************)
(* JSON values (serde_json::Value) and canonicalization (crypto.rs)        *)
(*                                                                         *)
(* An object is a function from its keys to its members' values; the       *)
(* canonical text of a value is the value with every object turned into    *)
(* the sequence of its <<key, value>> members in key order.                *)
(***************************************************************************)
JString(s) == [json |-> "string", value |-> s]
JNumber(n) == [json |-> "number", value |-> n]
JObject(members) == [json |-> "object", value |-> members]
JArray(items) == [json |-> "array", value |-> items]
JNull == [json |-> "null", value |-> <<>>]

\* Every key of the modelled documents, in the order of String's Ord.
KeyOrder ==
    <<"a", "activatesAt", "beneficiary", "capabilities", "chain", "changeType",
      "constraints", "countersignatures", "createdAt", "deployment", "depth",
      "description", "expiresAt", "id", "identityHash", "issuer", "lineage", "metadata",
      "model", "modelId", "nonce", "note", "operatorPublicKey", "parentHash", "parentId",
      "provider", "publicKey", "relation", "role", "runtime", "signature",
      "signerPublicKey", "signerRole", "timestamp", "version", "z">>

\* keys.sort()
sorted_keys(members) == SelectSeq(KeyOrder, LAMBDA k : k \in DOMAIN members)

RECURSIVE sort_keys(_)
sort_keys(value) ==
    CASE value.json = "object" ->
            LET keys == sorted_keys(value.value)
            IN  JObject([i \in 1..Len(keys) |->
                            <<keys[i], sort_keys(value.value[keys[i]])>>])
      [] value.json = "array" ->
            JArray([i \in 1..Len(value.value) |-> sort_keys(value.value[i])])
      [] OTHER -> value

\* crypto::canonicalize_json
canonicalize_json(obj) == sort_keys(obj)

\* serde_json::Map::remove
remove(members, key) == [k \in DOMAIN members \ {key} |-> members[k]]

(***************************************************************************)
(* Covenant documents (covenant.rs)                                        *)
(***************************************************************************)
PROTOCOL_VERSION == "1.0"
MAX_CONSTRAINTS == 256
MAX_CHAIN_DEPTH == 16
MAX_DOCUMENT_SIZE == 1048576

Party(id, public_key, role) == [id |-> id, public_key |-> public_key, role |-> role]
ChainReference(parent_id, relation, depth) ==
    [parent_id |-> parent_id, relation |-> relation, depth |-> depth]

\* A CCL source text: its tokens and its white space ("blank" for a text of
\* white space only, else "single" or "double" spaces between the tokens).
Text(layout, tokens) == [layout |-> layout, tokens |-> tokens]
tokenize(source) == source.tokens
trim_is_empty(source) == source.layout = "blank"
parse_text(source) == parse(tokenize(source))

DocumentKeys ==
    {"id", "version", "issuer", "beneficiary", "constraints", "nonce", "createdAt",
     "signature", "chain", "expiresAt", "activatesAt", "countersignatures", "metadata"}

\* #[derive(Serialize)] of Party, ChainReference and Countersignature
party_value(party) ==
    JObject([id |-> JString(party.id), publicKey |-> JString(party.public_key),
             role |-> JString(party.role)])
chain_value(chain) ==
    JObject([parentId |-> JString(chain.parent_id), relation |-> JString(chain.relation),
             depth |-> JNumber(chain.depth)])
countersignature_value(cs) ==
    JObject([signerPublicKey |-> JString(cs.signer_public_key),
             signerRole |-> JString(cs.signer_role),
             signature |-> JString(cs.signature), timestamp |-> JString(cs.timestamp)])

\* skip_serializing_if = "Option::is_none"
is_serialized(document, key) ==
    CASE key = "chain" -> document.chain # None
      [] key = "expiresAt" -> document.expires_at # None
      [] key = "activatesAt" -> document.activates_at # None
      [] key = "countersignatures" -> document.countersignatures # None
      [] key = "metadata" -> document.metadata # None
      [] OTHER -> TRUE

member_value(document, key) ==
    CASE key = "id" -> JString(document.id)
      [] key = "version" -> JString(document.version)
      [] key = "issuer" -> party_value(document.issuer)
      [] key = "beneficiary" -> party_value(document.beneficiary)
      [] key = "constraints" -> JString(document.constraints)
      [] key = "nonce" -> JString(document.nonce)
      [] key = "createdAt" -> JString(document.created_at)
      [] key = "signature" -> JString(document.signature)
      [] key = "chain" -> chain_value(document.chain[1])
      [] key = "expiresAt" -> JString(document.expires_at[1])
      [] key = "activatesAt" -> JString(document.activates_at[1])
      [] key = "countersignatures" ->
            JArray([i \in 1..Len(document.countersignatures[1]) |->
                       countersignature_value(document.countersignatures[1][i])])
      [] key = "metadata" -> document.metadata[1]

\* serde_json::to_value of a CovenantDocument
to_value(document) ==
    JObject([key \in {k \in DocumentKeys : is_serialized(document, k)} |->
                member_value(document, key)])

\* A canonical form that keeps the signature.
RemovedKeysButSignature == <<"id", "countersignatures">>

\* The keys canonical_form removes.
RemovedKeys == <<"id", "signature", "countersignatures">>

RECURSIVE remove_all(_, _)
remove_all(members, keys) ==
    IF keys = <<>> THEN members ELSE remove_all(remove(members, Head(keys)), Tail(keys))

\* canonical_form
canonical_form(document) ==
    canonicalize_json(JObject(remove_all(to_value(document).value, RemovedKeys)))

\* compute_id
compute_id(document) == sha256_string(canonical_form(document))

\* The length of serde_json::to_string(&doc): the members whose length the
\* modelled documents vary, and EnvelopeLen for everything else.
EnvelopeLen == 512

RECURSIVE json_len(_)
RECURSIVE members_len(_, _)
members_len(members, keys) ==
    IF keys = <<>> THEN 0
    ELSE json_len(members[Head(keys)]) + members_len(members, Tail(keys))
json_len(value) ==
    CASE value.json = "object" -> members_len(value.value, sorted_keys(value.value))
      [] value.json = "string" -> StrLen(value.value)
      [] OTHER -> 1

RECURSIVE countersignatures_len(_)
countersignatures_len(countersignatures) ==
    IF countersignatures = <<>> THEN 0
    ELSE StrLen(Head(countersignatures).signer_public_key)
             + StrLen(Head(countersignatures).signature)
             + countersignatures_len(Tail(countersignatures))

serialized_len(document) ==
    EnvelopeLen + StrLen(document.id) + StrLen(document.signature)
        + StrLen(document.nonce)
        + (IF document.metadata = None THEN 0 ELSE json_len(document.metadata[1]))
        + (IF document.countersignatures = None THEN 0
           ELSE countersignatures_len(document.countersignatures[1]))

\* The document build_covenant would return where it returns an Err.
NoDocument ==
    [id |-> EmptyString, version |-> PROTOCOL_VERSION,
     issuer |-> Party("", EmptyString, ""), beneficiary |-> Party("", EmptyString, ""),
     constraints |-> Text("blank", <<EofToken>>), nonce |-> EmptyString,
     created_at |-> Timestamp(0, "invalid"), signature |-> EmptyString,
     chain |-> None, expires_at |-> None, activates_at |-> None,
     countersignatures |-> None, metadata |-> None]

BuildOk(document) == [ok |-> TRUE, error |-> "", document |-> document]
BuildErr(error) == [ok |-> FALSE, error |-> error, document |-> NoDocument]

\* The chain validation of build_covenant: the error, or "" for none.
chain_error(chain) ==
    IF chain = None THEN ""
    ELSE IF chain[1].parent_id = "" THEN "chain.parentId is required"
    ELSE IF chain[1].relation = "" THEN "chain.relation is required"
    ELSE IF chain[1].depth < 1 THEN "chain.depth must be a positive integer"
    ELSE IF chain[1].depth > MAX_CHAIN_DEPTH THEN "chain.depth exceeds maximum"
    ELSE ""

\* The document build_covenant constructs, signs and names.
signed_document(opts, nonce_bytes, now_utc) ==
    LET unsigned ==
            [id |-> EmptyString, version |-> PROTOCOL_VERSION,
             issuer |-> opts.issuer, beneficiary |-> opts.beneficiary,
             constraints |-> opts.constraints, nonce |-> hex_encode(nonce_bytes),
             created_at |-> timestamp(now_utc), signature |-> EmptyString,
             chain |-> opts.chain, expires_at |-> opts.expires_at,
             activates_at |-> opts.activates_at, countersignatures |-> None,
             metadata |-> opts.metadata]
        canonical == canonical_form(unsigned)
    IN  [unsigned EXCEPT !.signature = hex_encode(sign(canonical, opts.signing_key)),
                         !.id = sha256_string(canonical)]

\* build_covenant; nonce_bytes is what generate_nonce returns, now_utc the clock.
build_covenant(opts, nonce_bytes, now_utc) ==
    IF opts.issuer.id = "" THEN BuildErr("issuer.id is required")
    ELSE IF is_empty(opts.issuer.public_key) THEN BuildErr("issuer.publicKey is required")
    ELSE IF opts.issuer.role # "issuer" THEN BuildErr("issuer.role must be \"issuer\"")
    ELSE IF opts.beneficiary.id = "" THEN BuildErr("beneficiary.id is required")
    ELSE IF is_empty(opts.beneficiary.public_key)
    THEN BuildErr("beneficiary.publicKey is required")
    ELSE IF opts.beneficiary.role # "beneficiary"
    THEN BuildErr("beneficiary.role must be \"beneficiary\"")
    ELSE IF trim_is_empty(opts.constraints) THEN BuildErr("constraints is required")
    ELSE IF ~parse_text(opts.constraints).ok THEN BuildErr("CCL parse error")
    ELSE IF Len(parse_text(opts.constraints).doc.statements) > MAX_CONSTRAINTS
    THEN BuildErr("Constraints exceed maximum")
    ELSE IF chain_error(opts.chain) # "" THEN BuildErr(chain_error(opts.chain))
    ELSE LET document == signed_document(opts, nonce_bytes, now_utc) IN
         IF serialized_len(document) > MAX_DOCUMENT_SIZE
         THEN BuildErr("Serialized document exceeds maximum size")
         ELSE BuildOk(document)

(***************************************************************************)
(* countersign_covenant, serialize_covenant, deserialize_covenant          *)
(***************************************************************************)
KeyPair(signing_key, public_key_hex) ==
    [signing_key |-> signing_key, public_key_hex |-> public_key_hex]
\* crypto::generate_key_pair, for the secret the random generator yields
generate_key_pair(secret) == KeyPair(secret, hex_encode(verifying_key(secret)))

Countersignature(signer_public_key, signer_role, signature, time) ==
    [signer_public_key |-> signer_public_key, signer_role |-> signer_role,
     signature |-> signature, timestamp |-> time]

\* countersign_covenant, were it to start a new list instead of pushing onto
\* the existing one
countersign_replacing(document, kp, role, now_utc) ==
    [document EXCEPT !.countersignatures =
         Some(<<Countersignature(kp.public_key_hex, role,
                                 hex_encode(sign(canonical_form(document), kp.signing_key)),
                                 timestamp(now_utc))>>)]

\* countersign_covenant, were it to sign the document with the
\* countersignatures it already carries
countersign_over_list(document, kp, role, now_utc) ==
    LET body == canonicalize_json(JObject(remove_all(to_value(document).value,
                                                     <<"id", "signature">>)))
    IN  [document EXCEPT !.countersignatures =
             Some(Append(unwrap_or(document.countersignatures, <<>>),
                         Countersignature(kp.public_key_hex, role,
                                          hex_encode(sign(body, kp.signing_key)),
                                          timestamp(now_utc))))]

\* countersign_covenant; now_utc is the clock crypto::timestamp reads.
countersign_covenant(document, kp, role, now_utc) ==
    LET countersig ==
            Countersignature(kp.public_key_hex, role,
                             hex_encode(sign(canonical_form(document), kp.signing_key)),
                             timestamp(now_utc))
    IN  [document EXCEPT !.countersignatures =
             Some(Append(unwrap_or(document.countersignatures, <<>>), countersig))]

\* The members of a serialized CovenantDocument, in the order of the struct.
DeclaredKeys ==
    <<"id", "version", "issuer", "beneficiary", "constraints", "nonce", "createdAt",
      "signature", "chain", "expiresAt", "activatesAt", "countersignatures", "metadata">>

\* serialize_covenant: the JSON text, as its members in order (to_string_pretty
\* adds white space only).
serialize_covenant(document) ==
    LET keys == SelectSeq(DeclaredKeys, LAMBDA k : is_serialized(document, k))
    IN  [i \in 1..Len(keys) |-> <<keys[i], member_value(document, keys[i])>>]

\* The value of the member named key in a JSON text, if there is one.
member(json, key) ==
    LET at == {i \in 1..Len(json) : json[i][1] = key}
    IN  IF at = {} THEN None ELSE Some(json[CHOOSE i \in at : TRUE][2])

\* Deserialize of Option<T>: an absent member and null both give None.
optional(json, key) ==
    IF member(json, key) = None THEN None
    ELSE IF member(json, key)[1].json = "null" THEN None
    ELSE member(json, key)

\* Deserialize of Party, ChainReference and Countersignature
party_of(value) ==
    Party(value.value.id.value, value.value.publicKey.value, value.value.role.value)
chain_of(value) ==
    ChainReference(value.value.parentId.value, value.value.relation.value,
                   value.value.depth.value)
countersignature_of(value) ==
    Countersignature(value.value.signerPublicKey.value, value.value.signerRole.value,
                     value.value.signature.value, value.value.timestamp.value)

\* The struct serde builds from the members of a JSON text that has every
\* required member.
document_from(json) ==
    [id |-> member(json, "id")[1].value,
     version |-> member(json, "version")[1].value,
     issuer |-> party_of(member(json, "issuer")[1]),
     beneficiary |-> party_of(member(json, "beneficiary")[1]),
     constraints |-> member(json, "constraints")[1].value,
     nonce |-> member(json, "nonce")[1].value,
     created_at |-> member(json, "createdAt")[1].value,
     signature |-> member(json, "signature")[1].value,
     chain |-> IF optional(json, "chain") = None THEN None
               ELSE Some(chain_of(optional(json, "chain")[1])),
     expires_at |-> IF optional(json, "expiresAt") = None THEN None
                    ELSE Some(optional(json, "expiresAt")[1].value),
     activates_at |-> IF optional(json, "activatesAt") = None THEN None
                      ELSE Some(optional(json, "activatesAt")[1].value),
     countersignatures |->
         IF optional(json, "countersignatures") = None THEN None
         ELSE Some([i \in 1..Len(optional(json, "countersignatures")[1].value) |->
                       countersignature_of(optional(json, "countersignatures")[1].value[i])]),
     metadata |-> optional(json, "metadata")]

RequiredKeys ==
    {"id", "version", "issuer", "beneficiary", "constraints", "nonce", "createdAt",
     "signature"}

\* deserialize_covenant: Err when a required member is missing or null.
deserialize_covenant(json) ==
    IF \E key \in RequiredKeys : optional(json, key) = None
    THEN [ok |-> FALSE, document |-> NoDocument]
    ELSE [ok |-> TRUE, document |-> document_from(json)]

(***************************************************************************)
(* verify_covenant (covenant.rs)                                           *)
(***************************************************************************)
\* format!: the template and its arguments
Message(template, args) == <<template>> \o args
VerificationCheck(name, passed, message) ==
    [name |-> name, passed |-> passed, message |-> message]

\* hex::decode(..).unwrap_or_default(), and the [u8; 32] it is turned into
decode_or_default(s) == unwrap_or(hex_decode(s), Zeros(0))
key_array(bytes) == IF ByteLen(bytes) = 32 THEN bytes ELSE Zeros(32)

\* A signature test that only looks at the length of the decoded signature.
signature_length_verifies(canonical, signature, public_key) ==
    ByteLen(decode_or_default(signature)) = 64

\* The signature test of checks 2 and 10.
signature_verifies(canonical, signature, public_key) ==
    LET sig_bytes == decode_or_default(signature)
        vk == from_bytes(key_array(decode_or_default(public_key)))
    IN  IF vk # None THEN verify(canonical, sig_bytes, vk[1]) ELSE FALSE

id_match_check(document) ==
    LET expected_id == compute_id(document) IN
    VerificationCheck("id_match", document.id = expected_id,
        IF document.id = expected_id THEN Message("Document ID matches canonical hash", <<>>)
        ELSE Message("ID mismatch: expected {}, got {}", <<expected_id, document.id>>))

signature_valid_check(document) ==
    LET sig_valid == signature_verifies(canonical_form(document), document.signature,
                                        document.issuer.public_key)
    IN  VerificationCheck("signature_valid", sig_valid,
            IF sig_valid THEN Message("Issuer signature is valid", <<>>)
            ELSE Message("Issuer signature verification failed", <<>>))

\* A not_expired check that still passes at the instant of expiresAt.
not_expired_inclusive(document, now_utc) ==
    IF document.expires_at = None
    THEN VerificationCheck("not_expired", TRUE, Message("No expiry set", <<>>))
    ELSE LET expires_at == document.expires_at[1]
             not_expired ==
                 IF parse_timestamp(expires_at) # None
                 THEN now_utc <= parse_timestamp(expires_at)[1]
                 ELSE TRUE
         IN  VerificationCheck("not_expired", not_expired,
                 IF not_expired THEN Message("Document has not expired", <<>>)
                 ELSE Message("Document expired at {}", <<expires_at>>))

not_expired_check(document, now_utc) ==
    IF document.expires_at = None
    THEN VerificationCheck("not_expired", TRUE, Message("No expiry set", <<>>))
    ELSE LET expires_at == document.expires_at[1]
             not_expired ==
                 IF parse_from_rfc3339(expires_at) # None
                 THEN now_utc < parse_from_rfc3339(expires_at)[1]
                 ELSE IF parse_timestamp(expires_at) # None
                 THEN now_utc < parse_timestamp(expires_at)[1]
                 ELSE TRUE
         IN  VerificationCheck("not_expired", not_expired,
                 IF not_expired THEN Message("Document has not expired", <<>>)
                 ELSE Message("Document expired at {}", <<expires_at>>))

active_check(document, now_utc) ==
    IF document.activates_at = None
    THEN VerificationCheck("active", TRUE, Message("No activation time set", <<>>))
    ELSE LET activates_at == document.activates_at[1]
             is_active ==
                 IF parse_from_rfc3339(activates_at) # None
                 THEN now_utc >= parse_from_rfc3339(activates_at)[1]
                 ELSE IF parse_timestamp(activates_at) # None
                 THEN now_utc >= parse_timestamp(activates_at)[1]
                 ELSE TRUE
         IN  VerificationCheck("active", is_active,
                 IF is_active THEN Message("Document is active", <<>>)
                 ELSE Message("Document activates at {}", <<activates_at>>))

ccl_parses_check(document) ==
    LET parsed == parse_text(document.constraints) IN
    IF ~parsed.ok
    THEN VerificationCheck("ccl_parses", FALSE, Message("CCL parse error: {}", <<>>))
    ELSE IF Len(parsed.doc.statements) > MAX_CONSTRAINTS
    THEN VerificationCheck("ccl_parses", FALSE,
             Message("Constraints exceed maximum of {} statements", <<MAX_CONSTRAINTS>>))
    ELSE VerificationCheck("ccl_parses", TRUE,
             Message("CCL parsed successfully ({} statement(s))",
                     <<Len(parsed.doc.statements)>>))

enforcement_valid_check ==
    VerificationCheck("enforcement_valid", TRUE,
                      Message("No enforcement config present (or valid)", <<>>))

\* A seventh check under another name.
proof_check_renamed ==
    VerificationCheck("proof", TRUE, Message("No proof config present (or valid)", <<>>))

proof_valid_check ==
    VerificationCheck("proof_valid", TRUE, Message("No proof config present (or valid)", <<>>))

chain_depth_check(document) ==
    IF document.chain = None
    THEN VerificationCheck("chain_depth", TRUE, Message("No chain reference present", <<>>))
    ELSE LET depth == document.chain[1].depth
             depth_ok == depth >= 1 /\ depth <= MAX_CHAIN_DEPTH
         IN  VerificationCheck("chain_depth", depth_ok,
                 IF depth_ok THEN Message("Chain depth {} is within limit", <<depth>>)
                 ELSE Message("Chain depth {} exceeds maximum of {}",
                              <<depth, MAX_CHAIN_DEPTH>>))

document_size_check(document) ==
    LET size == serialized_len(document)
        size_ok == size <= MAX_DOCUMENT_SIZE
    IN  VerificationCheck("document_size", size_ok,
            IF size_ok THEN Message("Document size {} bytes is within limit", <<size>>)
            ELSE Message("Document size {} bytes exceeds maximum of {}",
                         <<size, MAX_DOCUMENT_SIZE>>))

\* &cs.signer_public_key[..16] followed by "..."
truncated(public_key) ==
    IF StrLen(public_key) > 16 THEN <<"{}...", public_key>> ELSE <<"{}", public_key>>

\* A check that stops at the first countersignature.
first_countersignature_check(document) ==
    IF document.countersignatures = None \/ document.countersignatures = Some(<<>>)
    THEN VerificationCheck("countersignatures", TRUE,
                           Message("No countersignatures present", <<>>))
    ELSE VerificationCheck("countersignatures",
             signature_verifies(canonical_form(document),
                                document.countersignatures[1][1].signature,
                                document.countersignatures[1][1].signer_public_key),
             Message("First countersignature checked", <<>>))

countersignatures_check(document) ==
    IF document.countersignatures = None \/ document.countersignatures = Some(<<>>)
    THEN VerificationCheck("countersignatures", TRUE,
                           Message("No countersignatures present", <<>>))
    ELSE LET countersigs == document.countersignatures[1]
             canonical == canonical_form(document)
             cs_valid(cs) == signature_verifies(canonical, cs.signature, cs.signer_public_key)
             failed == SelectSeq(countersigs, LAMBDA cs : ~cs_valid(cs))
             all_valid == failed = <<>>
         IN  VerificationCheck("countersignatures", all_valid,
                 IF all_valid
                 THEN Message("All {} countersignature(s) are valid", <<Len(countersigs)>>)
                 ELSE Message("Invalid countersignature(s) from: {}",
                              [i \in 1..Len(failed) |-> truncated(failed[i].signer_public_key)]))

nonce_present_check(document) ==
    LET nonce_ok == /\ ~is_empty(document.nonce)
                    /\ StrLen(document.nonce) = 64
                    /\ all_ascii_hexdigit(document.nonce)
    IN  VerificationCheck("nonce_present", nonce_ok,
            IF nonce_ok THEN Message("Nonce is present and valid (64-char hex)", <<>>)
            ELSE IF is_empty(document.nonce) THEN Message("Nonce is missing or empty", <<>>)
            ELSE Message("Nonce is malformed: expected 64-char hex string, got {} chars",
                         <<StrLen(document.nonce)>>))

\* verify_covenant; now_utc is what chrono::Utc::now returns.
verify_covenant(document, now_utc) ==
    LET checks == <<id_match_check(document), signature_valid_check(document),
                    not_expired_check(document, now_utc), active_check(document, now_utc),
                    ccl_parses_check(document), enforcement_valid_check,
                    proof_valid_check, chain_depth_check(document),
                    document_size_check(document), countersignatures_check(document),
                    nonce_present_check(document)>>
    IN  [valid |-> \A i \in 1..Len(checks) : checks[i].passed, checks |-> checks]

(***************************************************************************)
(* Identities (identity.rs)                                                *)
(***************************************************************************)
ModelInfo(provider, model_id) == [provider |-> provider, model_id |-> model_id]
DeploymentInfo(runtime) == [runtime |-> runtime]
LineageEntry(identity_hash, parent_hash, change_type, description, time) ==
    [identity_hash |-> identity_hash, parent_hash |-> parent_hash,
     change_type |-> change_type, description |-> description, timestamp |-> time]

\* The capability names of the model, in the order of String's Ord.
CapabilityOrder == <<"admin", "read", "write">>

\* Vec<String>::sort
RECURSIVE sorted_by(_, _)
sorted_by(v, order) ==
    IF order = <<>> THEN <<>>
    ELSE SelectSeq(v, LAMBDA s : s = Head(order)) \o sorted_by(v, Tail(order))
sort(v) == sorted_by(v, CapabilityOrder)

\* serde_json::to_value of a LineageEntry (a parent_hash of None is written
\* as null) and of an AgentIdentity
lineage_entry_value(entry) ==
    JObject([identityHash |-> JString(entry.identity_hash),
             parentHash |-> IF entry.parent_hash = None THEN JNull
                            ELSE JString(entry.parent_hash[1]),
             changeType |-> JString(entry.change_type),
             description |-> JString(entry.description),
             timestamp |-> JString(entry.timestamp)])
identity_value(identity) ==
    JObject([id |-> JString(identity.id),
             operatorPublicKey |-> JString(identity.operator_public_key),
             model |-> JObject([provider |-> JString(identity.model.provider),
                                modelId |-> JString(identity.model.model_id)]),
             capabilities |-> JArray([i \in 1..Len(identity.capabilities) |->
                                         JString(identity.capabilities[i])]),
             deployment |-> JObject([runtime |-> JString(identity.deployment.runtime)]),
             version |-> JNumber(identity.version),
             lineage |-> JArray([i \in 1..Len(identity.lineage) |->
                                    lineage_entry_value(identity.lineage[i])]),
             signature |-> JString(identity.signature),
             createdAt |-> JString(identity.created_at)])

\* identity_body
identity_body(identity) ==
    JObject(remove(remove(identity_value(identity).value, "id"), "signature"))

\* compute_identity_hash
compute_identity_hash(body) == sha256_string(canonicalize_json(body))

\* The identity create_identity would return where it returns an Err.
NoIdentity ==
    [id |-> EmptyString, operator_public_key |-> EmptyString,
     model |-> ModelInfo("", ""), capabilities |-> <<>>,
     deployment |-> DeploymentInfo(""), version |-> 0, lineage |-> <<>>,
     signature |-> EmptyString, created_at |-> timestamp(0)]

IdentityOk(identity) == [ok |-> TRUE, kind |-> "", message |-> "", identity |-> identity]
InvalidInput(message) ==
    [ok |-> FALSE, kind |-> "InvalidInput", message |-> message, identity |-> NoIdentity]

\* A lineage entry carrying the hash of the body once the entry is in it:
\* the entry's own hash field is still empty when the body is hashed.
with_lineage_entry_hashed_after(identity, parent_hash, change_type, description, now) ==
    [identity EXCEPT !.lineage =
         Append(@, LineageEntry(
                       compute_identity_hash(identity_body(
                           [identity EXCEPT !.lineage =
                                Append(@, LineageEntry(EmptyString, parent_hash, change_type,
                                                       description, now))])),
                       parent_hash, change_type, description, now))]
\* A signature over the whole identity, its id included.
with_signature_over_id(identity, signing_key) ==
    [identity EXCEPT !.signature =
         hex_encode(sign(canonicalize_json(identity_value(identity)), signing_key))]
\* The three steps create_identity and evolve_identity share: the lineage
\* entry carrying the hash of the body as it is, the id, the signature.
with_lineage_entry(identity, parent_hash, change_type, description, now) ==
    [identity EXCEPT !.lineage =
         Append(@, LineageEntry(compute_identity_hash(identity_body(identity)),
                                parent_hash, change_type, description, now))]
with_id(identity) ==
    [identity EXCEPT !.id = compute_identity_hash(identity_body(identity))]
with_signature(identity, signing_key) ==
    [identity EXCEPT !.signature =
         hex_encode(sign(canonicalize_json(identity_body(identity)), signing_key))]

\* create_identity; now_utc is the clock crypto::timestamp reads.
create_identity(opts, now_utc) ==
    IF is_empty(opts.public_key_hex)
    THEN InvalidInput("operatorPublicKey is required")
    ELSE IF opts.model.provider = "" \/ opts.model.model_id = ""
    THEN InvalidInput("model.provider and model.modelId are required")
    ELSE IF opts.capabilities = <<>>
    THEN InvalidInput("capabilities array must not be empty")
    ELSE IF opts.deployment.runtime = ""
    THEN InvalidInput("deployment.runtime is required")
    ELSE IdentityOk(
             with_signature(
                 with_id(
                     with_lineage_entry(
                         [id |-> EmptyString,
                          operator_public_key |-> opts.public_key_hex,
                          model |-> opts.model,
                          capabilities |-> sort(opts.capabilities),
                          deployment |-> opts.deployment,
                          version |-> 1,
                          lineage |-> <<>>,
                          signature |-> EmptyString,
                          created_at |-> timestamp(now_utc)],
                         None, "created", "Identity created", timestamp(now_utc))),
                 opts.signing_key))

\* The first element where evolve_identity takes the last.
first(v) == IF v = <<>> THEN None ELSE Some(v[1])

\* Vec::last
last(v) == IF v = <<>> THEN None ELSE Some(v[Len(v)])

\* evolve_identity, past its two checks
evolved(identity, opts, now_utc) ==
             with_signature(
                 with_id(
                     with_lineage_entry(
                         [id |-> EmptyString,
                          operator_public_key |-> identity.operator_public_key,
                          model |-> unwrap_or(opts.model, identity.model),
                          capabilities |->
                              sort(unwrap_or(opts.capabilities, identity.capabilities)),
                          deployment |-> unwrap_or(opts.deployment, identity.deployment),
                          version |-> identity.version + 1,
                          lineage |-> identity.lineage,
                          signature |-> EmptyString,
                          created_at |-> identity.created_at],
                         IF last(identity.lineage) = None THEN None
                         ELSE Some(last(identity.lineage)[1].identity_hash),
                         opts.change_type, opts.description, timestamp(now_utc))),
                 opts.signing_key)

\* evolve_identity without its two checks
evolve_unchecked(identity, opts, now_utc) == IdentityOk(evolved(identity, opts, now_utc))

\* evolve_identity
evolve_identity(identity, opts, now_utc) ==
    IF opts.change_type = ""
    THEN InvalidInput("changeType is required for evolution")
    ELSE IF opts.description = ""
    THEN InvalidInput("description is required for evolution")
    ELSE IdentityOk(evolved(identity, opts, now_utc))

IdentityCheck(name, passed, message) ==
    [name |-> name, passed |-> passed, message |-> message]

\* verify_identity, check by check
identity_id_match_check(identity) ==
    LET expected_id == compute_identity_hash(identity_body(identity)) IN
    IdentityCheck("id_match", identity.id = expected_id,
                  IF identity.id = expected_id THEN Message("Identity ID matches hash", <<>>)
                  ELSE Message("ID mismatch: expected {}, got {}",
                               <<expected_id, identity.id>>))

identity_signature_check(identity) ==
    LET sig_valid == signature_verifies(canonicalize_json(identity_body(identity)),
                                        identity.signature, identity.operator_public_key)
    IN  IdentityCheck("signature_valid", sig_valid,
                      IF sig_valid THEN Message("Operator signature is valid", <<>>)
                      ELSE Message("Operator signature verification failed", <<>>))

\* The entries i (counted from 0, as the loop counts) whose parent hash is
\* not the hash of the entry before.
lineage_breaks(lineage) ==
    {i \in 1..(Len(lineage) - 1) :
        lineage[i + 1].parent_hash # Some(lineage[i].identity_hash)}
first_break(breaks) == CHOOSE i \in breaks : \A j \in breaks : i <= j

lineage_chain_check(identity) ==
    LET breaks == lineage_breaks(identity.lineage) IN
    IdentityCheck("lineage_chain", breaks = {},
        IF breaks = {} THEN Message("Lineage chain is valid", <<>>)
        ELSE IF identity.lineage[first_break(breaks) + 1].parent_hash = None
        THEN Message("Lineage entry {} has no parent hash", <<first_break(breaks)>>)
        ELSE Message("Lineage break at entry {}: expected parent {}, got {}",
                     <<first_break(breaks),
                       identity.lineage[first_break(breaks)].identity_hash,
                       identity.lineage[first_break(breaks) + 1].parent_hash[1]>>))

version_match_check(identity) ==
    IdentityCheck("version_match", identity.version = Len(identity.lineage),
        IF identity.version = Len(identity.lineage)
        THEN Message("Version {} matches lineage length", <<identity.version>>)
        ELSE Message("Version {} does not match lineage length {}",
                     <<identity.version, Len(identity.lineage)>>))

verify_identity(identity) ==
    LET checks == <<identity_id_match_check(identity), identity_signature_check(identity),
                    lineage_chain_check(identity), version_match_check(identity)>>
    IN  [valid |-> \A i \in 1..Len(checks) : checks[i].passed, checks |-> checks]

(***************************************************************************)
(* The values of the variables before a call, and of the variables a       *)
(* specification does not use                                              *)
(***************************************************************************)
NoMatch == [fn |-> "none", result |-> FALSE]
NoDoc == build_document(<<>>)
NoRequest == [action |-> <<>>, resource |-> <<>>, context |-> <<>>]
NoEvaluation == [called |-> FALSE, result |-> evaluate(NoDoc, <<>>, <<>>, <<>>)]
NoRateArgs == [metric |-> <<>>, current_count |-> 0, window_start_ms |-> 0, now_ms |-> 0]
NoRateResult == [called |-> FALSE, result |-> check_rate_limit(NoDoc, <<>>, 0, 0, 0)]
NoNarrowing == [called |-> FALSE, result |-> validate_narrowing(NoDoc, NoDoc)]
NoMerged == [called |-> FALSE, result |-> NoDoc]

NoPair == [first |-> <<>>, second |-> <<>>, separator |-> "."]
PairUnused == pair = NoPair /\ pairResult = NoMatch
MatchUnused == pattern = <<>> /\ target = <<>> /\ matched = NoMatch /\ PairUnused
EvalUnused == doc = NoDoc /\ request = NoRequest /\ evaluation = NoEvaluation
RateUnused == rateArgs = NoRateArgs /\ rateResult = NoRateResult
AlgebraUnused ==
    parent = NoDoc /\ child = NoDoc /\ narrowing = NoNarrowing /\ merged = NoMerged
NoOpts ==
    [issuer |-> NoDocument.issuer, beneficiary |-> NoDocument.beneficiary,
     constraints |-> NoDocument.constraints, signing_key |-> "",
     chain |-> None, expires_at |-> None, activates_at |-> None, metadata |-> None]
NoBuild == [called |-> FALSE, opts |-> NoOpts, result |-> BuildErr("")]
NoVerification == [called |-> FALSE, at |-> 0, result |-> [valid |-> FALSE, checks |-> <<>>]]
NoTampering == [field |-> "none", was_valid |-> FALSE, before |-> NoVerification]
NoRestored == [called |-> FALSE, result |-> [ok |-> FALSE, document |-> NoDocument]]
\* calls: the countersign_covenant calls that made the verified document
NoReverified == [of |-> "none", calls |-> 0, result |-> NoVerification.result]
NoCreateOpts ==
    [signing_key |-> "", public_key_hex |-> EmptyString, model |-> ModelInfo("", ""),
     capabilities |-> <<>>, deployment |-> DeploymentInfo("")]
NoEvolveOpts ==
    [signing_key |-> "", change_type |-> "", description |-> "", model |-> None,
     capabilities |-> None, deployment |-> None]
NoCreation == [called |-> FALSE, opts |-> NoCreateOpts, result |-> InvalidInput("")]
NoEvolution ==
    [called |-> FALSE, identity |-> NoIdentity, opts |-> NoEvolveOpts,
     result |-> InvalidInput("")]
NoIdentityVerification ==
    [called |-> FALSE, version |-> 0, result |-> [valid |-> FALSE, checks |-> <<>>]]
(***************************************************************************)
(* store.rs: MemoryStore, a HashMap<String, CovenantDocument>.  The map is *)
(* a function from the ids it holds to the documents held under them.      *)
(***************************************************************************)

\* MemoryStore::new: HashMap::new().
new == [id \in {} |-> NoDocument]

StoreOk(self) == [ok |-> TRUE, error |-> "", message |-> "", documents |-> self]
StorageError(message, self) ==
    [ok |-> FALSE, error |-> "StorageError", message |-> message, documents |-> self]

\* HashMap::insert: the entry under the key is added or replaced.
insert(self, id, document) ==
    [key \in DOMAIN self \cup {id} |-> IF key = id THEN document ELSE self[key]]

\* A put that leaves a document already held under the id in place.
put_keeping(self, id, document) ==
    IF is_empty(id) THEN StorageError("Document ID cannot be empty", self)
    ELSE IF id \in DOMAIN self THEN StoreOk(self)
    ELSE StoreOk(insert(self, id, document))

\* A put that does not look at the id.
put_unchecked(self, id, document) == StoreOk(insert(self, id, document))

\* MemoryStore::put: the Result, and the map after the call.
put(self, id, document) ==
    IF is_empty(id) THEN StorageError("Document ID cannot be empty", self)
    ELSE StoreOk(insert(self, id, document))

\* MemoryStore::get: Ok(self.documents.get(id)).
get(self, id) == IF id \in DOMAIN self THEN Some(self[id]) ELSE None

\* MemoryStore::delete: Ok(self.documents.remove(id).is_some()), and the map
\* after the call.
delete(self, id) == [removed |-> id \in DOMAIN self, documents |-> remove(self, id)]

\* MemoryStore::list: self.documents.values().collect().  A HashMap yields
\* its values in an order it does not specify: every Vec the call can return.
list(self) ==
    LET n == Cardinality(DOMAIN self)
    IN  {[i \in 1..n |-> self[keys[i]]] :
            keys \in {order \in [1..n -> DOMAIN self] :
                        \A a, b \in 1..n : order[a] = order[b] => a = b}}

\* MemoryStore::has: self.documents.contains_key(id).
has(self, id) == id \in DOMAIN self

\* MemoryStore::count: self.documents.len().
count(self) == Cardinality(DOMAIN self)

\* The store variables where no Store method is called.
NoStoreCall ==
    [method |-> "", id |-> EmptyString, document |-> NoDocument, ok |-> TRUE,
     error |-> "", found |-> None, flag |-> FALSE, listed |-> <<>>, number |-> 0]
StoreUnused == documents = new /\ history = <<>> /\ storeCall = NoStoreCall

IdentityUnused ==
    /\ creation = NoCreation /\ identities = <<>> /\ evolution = NoEvolution
    /\ identityVerification = NoIdentityVerification
NoReordering == [called |-> FALSE, order |-> <<>>, before |-> NoVerification]
DerivedUnused ==
    /\ restored = NoRestored /\ countersigned = <<>> /\ reverified = NoReverified
    /\ reordering = NoReordering
CovenantUnused ==
    /\ clock = 0 /\ built = NoBuild /\ covenant = NoDocument
    /\ tampering = NoTampering /\ verification = NoVerification
    /\ DerivedUnused

(***************************************************************************)
(* Inputs of the evaluator specification                                   *)
(***************************************************************************)
\* "r", "w": actions; "/d/s", "/d/p": resources; role: a context field.
ActRead == <<"r">>
ActWrite == <<"w">>
ResData == <<"/", "d", "/", "*", "*">>
ResSecret == <<"/", "d", "/", "s">>
ResPublic == <<"/", "d", "/", "p">>
FieldRole == <<"r", "o", "l", "e">>
ValAdmin == <<"a", "d", "m">>
ValUser == <<"u", "s", "r">>

EvalPatterns == {<<ActRead, ResData>>, <<ActRead, ResSecret>>, <<Star, DoubleStar>>}
EvalConditions == {None, Some(Cond(FieldRole, "=", ValAdmin))}
EvalPool ==
    {Rule(t, p[1], p[2], c) : t \in {Permit, Deny, Require}, p \in EvalPatterns, c \in EvalConditions}

Contexts == {<<>>, [f \in {FieldRole} |-> ValAdmin], [f \in {FieldRole} |-> ValUser]}
Requests ==
    [action : {ActRead, ActWrite}, resource : {ResSecret, ResPublic}, context : Contexts]


InitEval ==
    /\ StoreUnused
    /\ doc \in {build_document(s) : s \in SeqsUpTo(EvalPool, MaxStmts)}
    /\ request \in Requests
    /\ evaluation = NoEvaluation
    /\ MatchUnused /\ RateUnused /\ AlgebraUnused /\ CovenantUnused /\ IdentityUnused

Evaluate ==
    /\ ~evaluation.called
    /\ evaluation' = [called |-> TRUE,
                      result |-> evaluate(doc, request.action, request.resource, request.context)]
    /\ UNCHANGED <<doc, request, matchVars, rateVars, algebraVars, covenantVars, identityVars, storeVars>>

NextEval == Evaluate

SpecEval == InitEval /\ [][NextEval]_vars

(***************************************************************************)
(* Inputs of the matcher specification                                     *)
(***************************************************************************)
PatternSegment == {<<"a">>, Star, DoubleStar, <<>>}
TargetSegment == {<<"a">>, <<"b">>, <<>>}

ActionPatterns == {join(s, ".") : s \in SeqsUpTo(PatternSegment, MaxSegs)}
ActionTargets == {join(s, ".") : s \in SeqsUpTo(TargetSegment, MaxSegs)}
ResourcePatterns == {<<"/">> \o join(s, "/") : s \in SeqsUpTo(PatternSegment, MaxSegs)}
ResourceTargets == {<<"/">> \o join(s, "/") : s \in SeqsUpTo(TargetSegment, MaxSegs)}

InitMatch ==
    /\ StoreUnused
    /\ \/ pattern \in ActionPatterns /\ target \in ActionTargets
       \/ pattern \in ResourcePatterns /\ target \in ResourceTargets
    /\ matched = NoMatch
    /\ PairUnused
    /\ EvalUnused /\ RateUnused /\ AlgebraUnused /\ CovenantUnused /\ IdentityUnused

MatchAction ==
    /\ matched = NoMatch
    /\ matched' = [fn |-> "match_action", result |-> match_action(pattern, target)]
    /\ UNCHANGED <<pattern, target, pair, pairResult, evalVars, rateVars, algebraVars,
                   covenantVars, identityVars, storeVars>>

MatchResource ==
    /\ matched = NoMatch
    /\ matched' = [fn |-> "match_resource", result |-> match_resource(pattern, target)]
    /\ UNCHANGED <<pattern, target, pair, pairResult, evalVars, rateVars, algebraVars,
                   covenantVars, identityVars, storeVars>>

NextMatch == MatchAction \/ MatchResource

SpecMatch == InitMatch /\ [][NextMatch]_vars

(***************************************************************************)
(* Specification of the two pattern relations of validate_narrowing        *)
(***************************************************************************)
\* Greatest number of segments of the two patterns of a pair together.
MaxPairSegs == 5

\* The pairs of segment lists of at most n segments together, and the pairs
\* of a list of at most MaxSegs segments with itself.
SegmentPairs(n) ==
    UNION {{<<s1, s2>> : s1 \in [1..k -> PatternSegment],
                         s2 \in SeqsUpTo(PatternSegment, n - k)} : k \in 0..n}
        \cup {<<s, s>> : s \in SeqsUpTo(PatternSegment, MaxSegs)}
\* Actions are joined with ".", resources with "/" after a leading "/".
spelled(segments, separator) ==
    IF separator = "." THEN join(segments, ".") ELSE <<"/">> \o join(segments, "/")

InitPair ==
    /\ StoreUnused
    /\ \E segments \in SegmentPairs(MaxPairSegs), separator \in {".", "/"} :
          pair = [first |-> spelled(segments[1], separator),
                  second |-> spelled(segments[2], separator), separator |-> separator]
    /\ pairResult = NoMatch
    /\ pattern = <<>> /\ target = <<>> /\ matched = NoMatch
    /\ EvalUnused /\ RateUnused /\ AlgebraUnused /\ CovenantUnused /\ IdentityUnused

\* patterns_overlap(&first, &second)
PatternsOverlap ==
    /\ pairResult = NoMatch
    /\ pairResult' = [fn |-> "patterns_overlap",
                      result |-> patterns_overlap(pair.first, pair.second)]
    /\ UNCHANGED <<pattern, target, matched, pair, evalVars, rateVars, algebraVars,
                   covenantVars, identityVars, storeVars>>

\* is_subset_pattern(&first, &second, separator): first is the child pattern
IsSubsetPattern ==
    /\ pairResult = NoMatch
    /\ pairResult' = [fn |-> "is_subset_pattern",
                      result |-> is_subset_pattern(pair.first, pair.second, pair.separator)]
    /\ UNCHANGED <<pattern, target, matched, pair, evalVars, rateVars, algebraVars,
                   covenantVars, identityVars, storeVars>>

NextPair == PatternsOverlap \/ IsSubsetPattern

SpecPair == InitPair /\ [][NextPair]_vars

(***************************************************************************)
(* The rate-limit specification                                            *)
(***************************************************************************)
MetricCall == <<"a", ".", "c">>
MetricOther == <<"b">>
LimitPool ==
    {LimitRule(a, n, p, Plural(UnitSecond)) :
        a \in {MetricCall, <<"a", ".", "*">>, DoubleStar}, n \in {2, 3}, p \in {1, 2}}

InitRate ==
    /\ StoreUnused
    /\ doc \in {build_document(s) : s \in SeqsUpTo(LimitPool, MaxLimits)}
    /\ rateArgs \in [metric : {MetricCall, MetricOther}, current_count : 1..4,
                     window_start_ms : {0, 1}, now_ms : {1000, 1001, 2001, 2002}]
    /\ rateResult = NoRateResult
    /\ request = NoRequest /\ evaluation = NoEvaluation
    /\ MatchUnused /\ AlgebraUnused /\ CovenantUnused /\ IdentityUnused

CheckRateLimit ==
    /\ ~rateResult.called
    /\ rateResult' = [called |-> TRUE,
                      result |-> check_rate_limit(doc, rateArgs.metric, rateArgs.current_count,
                                                  rateArgs.window_start_ms, rateArgs.now_ms)]
    /\ UNCHANGED <<rateArgs, matchVars, evalVars, algebraVars, covenantVars, identityVars, storeVars>>

NextRate == CheckRateLimit

SpecRate == InitRate /\ [][NextRate]_vars

(***************************************************************************)
(* The narrowing and merge specifications                                  *)
(***************************************************************************)
FamilyPool ==
    {Rule(Permit, ActRead, ResData, None), Rule(Permit, ActRead, ResSecret, None),
     Rule(Permit, ActWrite, ResData, None), Rule(Deny, ActWrite, ResData, None),
     Rule(Deny, ActRead, ResSecret, None), Rule(Require, ActRead, ResData, None)}
FamilyDocs == {build_document(s) : s \in SeqsUpTo(FamilyPool, MaxFamilyStmts)}

InitNarrow ==
    /\ StoreUnused
    /\ parent \in FamilyDocs
    /\ child \in FamilyDocs
    /\ narrowing = NoNarrowing
    /\ merged = NoMerged
    /\ MatchUnused /\ EvalUnused /\ RateUnused /\ CovenantUnused /\ IdentityUnused

ValidateNarrowing ==
    /\ ~narrowing.called
    /\ narrowing' = [called |-> TRUE, result |-> validate_narrowing(parent, child)]
    /\ UNCHANGED <<parent, child, merged, matchVars, evalVars, rateVars, covenantVars, identityVars, storeVars>>

NextNarrow == ValidateNarrowing

SpecNarrow == InitNarrow /\ [][NextNarrow]_vars

MergePool ==
    {LimitRule(a, n, 1, Plural(UnitHour)) : a \in {MetricCall, MetricOther}, n \in {50, 100}}
        \cup {Rule(Permit, ActRead, ResData, None), Rule(Deny, ActRead, ResSecret, None)}
MergeDocs == {build_document(s) : s \in SeqsUpTo(MergePool, MaxFamilyStmts)}

InitMerge ==
    /\ StoreUnused
    /\ parent \in MergeDocs
    /\ child \in MergeDocs
    /\ narrowing = NoNarrowing
    /\ merged = NoMerged
    /\ MatchUnused /\ EvalUnused /\ RateUnused /\ CovenantUnused /\ IdentityUnused

\* merge(&parent, &child), any number of times on the same arguments
Merge ==
    /\ \E limit_values \in into_values(merged_limits(parent, child)) :
          merged' = [called |-> TRUE, result |-> merge(parent, child, limit_values)]
    /\ UNCHANGED <<parent, child, narrowing, matchVars, evalVars, rateVars, covenantVars, identityVars, storeVars>>

NextMerge == Merge

SpecMerge == InitMerge /\ [][NextMerge]_vars

(***************************************************************************)
(* SpecAccess: a parent and a child of permits and denies of different     *)
(* specificity, with and without a condition, are merged, and the merged   *)
(* document is evaluated on a request.                                     *)
(***************************************************************************)
\* Greatest number of statements of a merged parent or child.
MaxAccessStmts == 2

AccessPool ==
    {Rule(Permit, ActRead, ResData, None),
     Rule(Permit, ActRead, ResSecret, Some(Cond(FieldRole, "=", ValAdmin))),
     Rule(Deny, ActRead, ResSecret, None),
     Rule(Deny, Star, DoubleStar, None)}
AccessDocs == {build_document(s) : s \in SeqsUpTo(AccessPool, MaxAccessStmts)}
AccessRequests ==
    [action : {ActRead}, resource : {ResSecret, ResPublic},
     context : {<<>>, [f \in {FieldRole} |-> ValAdmin]}]

InitAccess ==
    /\ StoreUnused
    /\ parent \in AccessDocs
    /\ child \in AccessDocs
    /\ narrowing = NoNarrowing
    /\ merged = NoMerged
    /\ EvalUnused
    /\ MatchUnused /\ RateUnused /\ CovenantUnused /\ IdentityUnused

\* evaluate(&merge(&parent, &child), action, resource, &context)
EvaluateMerged ==
    /\ merged.called
    /\ ~evaluation.called
    /\ \E r \in AccessRequests :
          /\ request' = r
          /\ doc' = merged.result
          /\ evaluation' = [called |-> TRUE,
                            result |-> evaluate(merged.result, r.action, r.resource,
                                                r.context)]
    /\ UNCHANGED <<matchVars, rateVars, algebraVars, covenantVars, identityVars, storeVars>>

NextAccess == (~merged.called /\ Merge) \/ EvaluateMerged

SpecAccess == InitAccess /\ [][NextAccess]_vars

(***************************************************************************)
(* The covenant specification: a caller builds a covenant, verifies it,    *)
(* may overwrite one of its fields, and verifies again, while time passes. *)
(***************************************************************************)
\* The last instant of the clock.
MaxTime == 2
\* The instant of the expiresAt and activatesAt the callers pass.
Deadline == 2

SigningKeys == {"alice", "bob"}
NonceBytes == {<<"rand", 1>>, <<"rand", 2>>}
PublicKeyOf(signing_key) == hex_encode(verifying_key(signing_key))

Id(value) == Token("Identifier", value)
PermitRead == <<Keyword("Permit"), Id(ActRead), Keyword("On"), Token("StringLit", ResData)>>
LimitCalls ==
    <<Keyword("Limit"), Id(<<"a">>), Keyword("Dot"), Id(<<"c">>),
      Token("Number", <<"1", "0", "0">>), Keyword("Per"), Token("Number", <<"1">>),
      Token("TimeUnit", <<"H", "o", "u", "r", "s">>)>>
\* "permit r on '/d/**'", the same with a limit on a second line,
\* "invalid syntax", and a text of white space.
TextPermit == Text("single", PermitRead \o <<EofToken>>)
TextPermitLimit == Text("single", PermitRead \o <<Keyword("Newline")>> \o LimitCalls \o <<EofToken>>)
TextInvalid == Text("single", <<Id(<<"i">>), Id(<<"s">>), EofToken>>)
TextBlank == Text("blank", <<Keyword("Newline"), EofToken>>)

MetaSmall == JObject([a |-> JNumber(1), z |-> JNumber(2)])
\* A metadata that fits the size limit until the id and the signature are set.
MetaLarge ==
    JObject([note |-> JString(NotHex(MAX_DOCUMENT_SIZE - EnvelopeLen - 64 - 100))])

Alice == Party("alice", PublicKeyOf("alice"), "issuer")
Bob == Party("bob", PublicKeyOf("bob"), "beneficiary")
IssuerKeys ==
    {PublicKeyOf("alice"), HexUpper(verifying_key("alice")), NotHex(7),
     hex_encode(<<"offcurve", 1>>)}
Expiries ==
    {None, Some(Timestamp(Deadline, "rfc3339")), Some(Timestamp(Deadline, "invalid"))}
Activations == {None, Some(Timestamp(Deadline, "rfc3339"))}

\* Options build_covenant accepts: a plain and a rich payload, under every
\* issuer key, signing key, expiry and activation.
PlainOpts ==
    [issuer |-> Alice, beneficiary |-> Bob, constraints |-> TextPermit,
     signing_key |-> "alice", chain |-> None, expires_at |-> None,
     activates_at |-> None, metadata |-> None]
RichOpts ==
    [PlainOpts EXCEPT !.constraints = TextPermitLimit,
                      !.chain = Some(ChainReference("parent", "delegates", MAX_CHAIN_DEPTH)),
                      !.metadata = Some(MetaSmall)]
AcceptedOpts ==
    {[payload EXCEPT !.issuer.public_key = key, !.signing_key = signing_key,
                     !.expires_at = expires_at, !.activates_at = activates_at] :
        payload \in {PlainOpts, RichOpts}, key \in IssuerKeys, signing_key \in SigningKeys,
        expires_at \in Expiries, activates_at \in Activations}

\* Options whose document is exactly MAX_DOCUMENT_SIZE bytes long.
MetaFull ==
    JObject([note |-> JString(NotHex(MAX_DOCUMENT_SIZE - EnvelopeLen - 64 - 64 - 128))])
FullOpts == [PlainOpts EXCEPT !.metadata = Some(MetaFull)]

\* Options build_covenant rejects, one for each of its errors.
RejectedOpts ==
    {[PlainOpts EXCEPT !.issuer.id = ""],
     [PlainOpts EXCEPT !.issuer.public_key = EmptyString],
     [PlainOpts EXCEPT !.issuer.role = "beneficiary"],
     [PlainOpts EXCEPT !.beneficiary.id = ""],
     [PlainOpts EXCEPT !.beneficiary.public_key = EmptyString],
     [PlainOpts EXCEPT !.beneficiary.role = "issuer"],
     [PlainOpts EXCEPT !.constraints = TextBlank],
     [PlainOpts EXCEPT !.constraints = TextInvalid],
     [PlainOpts EXCEPT !.chain = Some(ChainReference("", "delegates", 1))],
     [PlainOpts EXCEPT !.chain = Some(ChainReference("parent", "", 1))],
     [PlainOpts EXCEPT !.chain = Some(ChainReference("parent", "delegates", 0))],
     [PlainOpts EXCEPT !.chain =
          Some(ChainReference("parent", "delegates", MAX_CHAIN_DEPTH + 1))],
     [PlainOpts EXCEPT !.metadata = Some(MetaLarge)]}

BuilderOptions == AcceptedOpts \cup {FullOpts} \cup RejectedOpts

\* The fields a caller overwrites, and the values it writes.
TamperedFields == {"id", "signature", "constraints", "nonce", "created_at"}
OtherLayout(text) == Text(IF text.layout = "single" THEN "double" ELSE "single", text.tokens)
TamperValues(document, field) ==
    CASE field = "id" ->
            {HexUpper(document.id.bytes), sha256_string(canonicalize_json(MetaSmall)),
             EmptyString}
      [] field = "signature" ->
            {HexUpper(document.signature.bytes), hex_encode(Zeros(64)), EmptyString,
             NotHex(128), NotHex(129)}
                \cup {hex_encode(sign(canonical_form(document), sk)) : sk \in SigningKeys}
      [] field = "constraints" ->
            {OtherLayout(document.constraints), TextPermit, TextPermitLimit, TextInvalid}
      [] field = "nonce" ->
            {HexUpper(document.nonce.bytes), EmptyString, hex_encode(Zeros(32))}
                \cup {hex_encode(bytes) : bytes \in NonceBytes}
      [] field = "created_at" ->
            {Timestamp(document.created_at.instant, "lenient"),
             Timestamp(document.created_at.instant + 1, "rfc3339")}

InitCovenant ==
    /\ StoreUnused
    /\ clock = 1
    /\ built = NoBuild
    /\ covenant = NoDocument
    /\ tampering = NoTampering
    /\ verification = NoVerification
    /\ DerivedUnused
    /\ MatchUnused /\ EvalUnused /\ RateUnused /\ AlgebraUnused /\ IdentityUnused

\* let doc = build_covenant(opts)
BuildCovenant ==
    /\ ~built.called
    /\ \E opts \in BuilderOptions, nonce_bytes \in NonceBytes :
          LET result == build_covenant(opts, nonce_bytes, clock) IN
          /\ built' = [called |-> TRUE, opts |-> opts, result |-> result]
          /\ covenant' = result.document
    /\ UNCHANGED <<clock, tampering, verification, derivedVars, matchVars, evalVars,
                   rateVars, algebraVars, identityVars, storeVars>>

\* verify_covenant(&doc)
VerifyCovenant ==
    /\ built.result.ok
    /\ ~verification.called \/ verification.at # clock
    /\ verification' = [called |-> TRUE, at |-> clock,
                        result |-> verify_covenant(covenant, clock)]
    /\ UNCHANGED <<clock, built, covenant, tampering, derivedVars, matchVars, evalVars,
                   rateVars, algebraVars, identityVars, storeVars>>

\* doc.<field> = value, on a document that has been verified
Tamper ==
    /\ built.result.ok
    /\ verification.called
    /\ tampering = NoTampering
    /\ \E field \in TamperedFields :
          \E value \in TamperValues(covenant, field) :
             /\ value # covenant[field]
             /\ covenant' = [covenant EXCEPT ![field] = value]
             /\ tampering' = [field |-> field, was_valid |-> verification.result.valid,
                               before |-> verification]
    /\ verification' = NoVerification
    /\ UNCHANGED <<clock, built, derivedVars, matchVars, evalVars, rateVars, algebraVars, identityVars, storeVars>>

\* Time passes.
Tick ==
    /\ clock < MaxTime
    /\ clock' = clock + 1
    /\ UNCHANGED <<built, covenant, tampering, verification, derivedVars, matchVars,
                   evalVars, rateVars, algebraVars, identityVars, storeVars>>

NextCovenant == BuildCovenant \/ VerifyCovenant \/ Tamper \/ Tick

SpecCovenant == InitCovenant /\ [][NextCovenant]_vars

(***************************************************************************)
(* Specification of the documents derived from one a caller holds: it is   *)
(* serialized and deserialized, countersigned, and the documents are       *)
(* verified, all at one instant                                            *)
(***************************************************************************)
\* The number of successive countersign_covenant calls.
MaxCountersignatures == 2
\* The secrets generate_key_pair draws for the countersigners, and their role.
Countersigners == {"carol", "dave"}
Roles == {"auditor"}

\* Metadata with a null in it, and the null alone.
MetaNested == JObject([note |-> JNull, a |-> JArray(<<JNumber(1), JString(NotHex(3))>>)])
\* Options of the documents held: every optional field absent, a document
\* of exactly MAX_DOCUMENT_SIZE bytes, every optional field present, one
\* signed with a key that is not the issuer's, and metadata of several JSON
\* values.
HeldOpts ==
    <<PlainOpts, FullOpts,
      [RichOpts EXCEPT !.expires_at = Some(Timestamp(Deadline, "rfc3339")),
                       !.activates_at = Some(Timestamp(Deadline, "rfc3339"))],
      [PlainOpts EXCEPT !.signing_key = "bob"],
      [PlainOpts EXCEPT !.metadata = Some(JNull)],
      [PlainOpts EXCEPT !.metadata = Some(MetaNested)],
      [PlainOpts EXCEPT !.metadata = Some(JString(NotHex(3)))]>>
BuiltDocument(i) == build_covenant(HeldOpts[i], <<"rand", 1>>, 1).document
\* The documents held: as built, with an empty list of countersignatures,
\* countersigned once, and with a countersignature by a key that did not sign.
HeldKinds == {"built", "empty list", "countersigned", "forged countersignature"}
HeldDocument(i, kind) ==
    CASE kind = "built" -> BuiltDocument(i)
      [] kind = "empty list" -> [BuiltDocument(i) EXCEPT !.countersignatures = Some(<<>>)]
      [] kind = "countersigned" ->
            countersign_covenant(BuiltDocument(i), generate_key_pair("erin"), "witness", 1)
      [] kind = "forged countersignature" ->
            [BuiltDocument(i) EXCEPT !.countersignatures =
                 Some(<<Countersignature(PublicKeyOf("erin"), "witness",
                                         BuiltDocument(i).signature, timestamp(1))>>)]

InitDocument ==
    /\ StoreUnused
    /\ clock \in 1..MaxTime
    /\ \E i \in DOMAIN HeldOpts, kind \in HeldKinds : covenant = HeldDocument(i, kind)
    /\ built = NoBuild
    /\ tampering = NoTampering
    /\ verification = NoVerification
    /\ DerivedUnused
    /\ MatchUnused /\ EvalUnused /\ RateUnused /\ AlgebraUnused /\ IdentityUnused

\* The document the next countersign_covenant call is given: the one
\* returned by the call before it, or the held document.
latest(returned, held) ==
    IF returned = <<>> THEN held ELSE returned[Len(returned)]

\* verify_covenant(&doc)
VerifyHeld ==
    /\ ~verification.called
    /\ verification' = [called |-> TRUE, at |-> clock,
                        result |-> verify_covenant(covenant, clock)]
    /\ UNCHANGED <<clock, built, covenant, tampering, derivedVars, matchVars, evalVars,
                   rateVars, algebraVars, identityVars, storeVars>>

\* let restored = deserialize_covenant(&serialize_covenant(&doc)?)
RoundTrip ==
    /\ ~restored.called
    /\ restored' = [called |-> TRUE,
                    result |-> deserialize_covenant(serialize_covenant(covenant))]
    /\ UNCHANGED <<clock, built, covenant, tampering, verification, reordering, countersigned,
                   reverified, matchVars, evalVars, rateVars, algebraVars, identityVars, storeVars>>

\* verify_covenant(&restored)
VerifyRestored ==
    /\ restored.called
    /\ restored.result.ok
    /\ reverified.of # "restored"
    /\ reverified' = [of |-> "restored", calls |-> 0,
                      result |-> verify_covenant(restored.result.document, clock)]
    /\ UNCHANGED <<clock, built, covenant, tampering, verification, reordering, restored,
                   countersigned, matchVars, evalVars, rateVars, algebraVars, identityVars, storeVars>>

\* let kp = generate_key_pair(); let next = countersign_covenant(&doc, &kp, role)?
Countersign ==
    /\ Len(countersigned) < MaxCountersignatures
    /\ \E secret \in Countersigners, role \in Roles :
          countersigned' =
              Append(countersigned,
                     countersign_covenant(latest(countersigned, covenant),
                                          generate_key_pair(secret), role, clock))
    /\ UNCHANGED <<clock, built, covenant, tampering, verification, reordering, restored, reverified,
                   matchVars, evalVars, rateVars, algebraVars, identityVars, storeVars>>

\* verify_covenant(&next)
VerifyCountersigned ==
    /\ countersigned # <<>>
    /\ reverified.of # "countersigned" \/ reverified.calls # Len(countersigned)
    /\ reverified' = [of |-> "countersigned", calls |-> Len(countersigned),
                      result |-> verify_covenant(latest(countersigned, covenant), clock)]
    /\ UNCHANGED <<clock, built, covenant, tampering, verification, reordering, restored,
                   countersigned, matchVars, evalVars, rateVars, algebraVars, identityVars, storeVars>>

NextDocument ==
    VerifyHeld \/ RoundTrip \/ VerifyRestored \/ Countersign \/ VerifyCountersigned

SpecDocument == InitDocument /\ [][NextDocument]_vars

(***************************************************************************)
(* Specification of a caller that verifies a countersigned document,       *)
(* reorders its countersignatures (the field is pub) and verifies again    *)
(***************************************************************************)
\* The countersignature lists of the documents held: signatures by generated
\* keys ("good") and one by a key that did not sign ("forged").
SignerLists ==
    {<<"good", "good">>, <<"good", "forged">>, <<"forged", "good", "good">>,
     <<"good", "good", "good">>}
SignerOf(k) == CASE k = 1 -> "carol" [] k = 2 -> "dave" [] OTHER -> "erin"
ListedCountersignature(document, kind, k) ==
    IF kind = "good"
    THEN countersign_covenant([document EXCEPT !.countersignatures = None],
                              generate_key_pair(SignerOf(k)), "auditor",
                              k).countersignatures[1][1]
    ELSE Countersignature(PublicKeyOf(SignerOf(k)), "auditor", document.signature,
                          timestamp(k))
ListedDocument(i, kinds) ==
    [BuiltDocument(i) EXCEPT !.countersignatures =
         Some([k \in 1..Len(kinds) |-> ListedCountersignature(BuiltDocument(i), kinds[k], k)])]

\* Every order of n things.
Orders(n) == {order \in [1..n -> 1..n] : \A a, b \in 1..n : order[a] = order[b] => a = b}
reordered(document, order) ==
    [document EXCEPT !.countersignatures =
         Some([k \in 1..Len(order) |-> document.countersignatures[1][order[k]]])]

InitReorder ==
    /\ StoreUnused
    /\ clock \in 1..MaxTime
    /\ \E i \in DOMAIN HeldOpts, kinds \in SignerLists : covenant = ListedDocument(i, kinds)
    /\ built = NoBuild
    /\ tampering = NoTampering
    /\ verification = NoVerification
    /\ DerivedUnused
    /\ MatchUnused /\ EvalUnused /\ RateUnused /\ AlgebraUnused /\ IdentityUnused

\* doc.countersignatures = Some(<the same entries in another order>), on a
\* document that has been verified
Reorder ==
    /\ verification.called
    /\ ~reordering.called
    /\ \E order \in Orders(Len(covenant.countersignatures[1])) :
          /\ covenant' = reordered(covenant, order)
          /\ reordering' = [called |-> TRUE, order |-> order, before |-> verification]
    /\ verification' = NoVerification
    /\ UNCHANGED <<clock, built, tampering, restored, countersigned, reverified, matchVars,
                   evalVars, rateVars, algebraVars, identityVars, storeVars>>

NextReorder == VerifyHeld \/ Reorder

SpecReorder == InitReorder /\ [][NextReorder]_vars

(***************************************************************************)
(* Specification of identities: create_identity, then evolve_identity on   *)
(* the latest identity, verify_identity, and the clock                     *)
(***************************************************************************)
\* The number of successful evolve_identity calls.
MaxEvolutions == 2

ModelOne == ModelInfo("anthropic", "m-1")
ModelTwo == ModelInfo("anthropic", "m-2")
Container == DeploymentInfo("container")
\* Options create_identity accepts: the operator's key signing, with the
\* public key spelled in lower case, in upper case or not in hex, and another
\* key signing; and options it rejects, one for each of its errors.
CreateBase ==
    [signing_key |-> "alice", public_key_hex |-> PublicKeyOf("alice"), model |-> ModelOne,
     capabilities |-> <<"write", "read">>, deployment |-> Container]
CreateOk ==
    {CreateBase,
     [CreateBase EXCEPT !.public_key_hex = HexUpper(verifying_key("alice"))],
     [CreateBase EXCEPT !.public_key_hex = NotHex(7)],
     [CreateBase EXCEPT !.signing_key = "bob"]}
CreateRejected ==
    {[CreateBase EXCEPT !.public_key_hex = EmptyString],
     [CreateBase EXCEPT !.model.provider = ""],
     [CreateBase EXCEPT !.model.model_id = ""],
     [CreateBase EXCEPT !.capabilities = <<>>],
     [CreateBase EXCEPT !.deployment.runtime = ""]}
CreateOptions == CreateOk \cup CreateRejected

\* Options of evolve_identity: everything overridden (capabilities out of
\* order), nothing overridden and another key signing, capabilities emptied;
\* and an empty change type, an empty description.
EvolveBase ==
    [signing_key |-> "alice", change_type |-> "model_update", description |-> "d",
     model |-> Some(ModelTwo), capabilities |-> Some(<<"write", "admin", "read">>),
     deployment |-> Some(DeploymentInfo("vm"))]
EvolveOk ==
    {EvolveBase,
     [EvolveBase EXCEPT !.signing_key = "bob", !.model = None, !.capabilities = None,
                        !.deployment = None],
     [EvolveBase EXCEPT !.model = None, !.capabilities = Some(<<>>), !.deployment = None]}
EvolveRejected ==
    {[EvolveBase EXCEPT !.change_type = ""], [EvolveBase EXCEPT !.description = ""]}
EvolveOptions == EvolveOk \cup EvolveRejected

InitIdentity ==
    /\ StoreUnused
    /\ clock = 1
    /\ creation = NoCreation
    /\ identities = <<>>
    /\ evolution = NoEvolution
    /\ identityVerification = NoIdentityVerification
    /\ built = NoBuild /\ covenant = NoDocument /\ tampering = NoTampering
    /\ verification = NoVerification /\ DerivedUnused
    /\ MatchUnused /\ EvalUnused /\ RateUnused /\ AlgebraUnused

\* let identity = create_identity(opts)
CreateIdentity ==
    /\ ~creation.called
    /\ \E opts \in CreateOptions :
          LET result == create_identity(opts, clock) IN
          /\ creation' = [called |-> TRUE, opts |-> opts, result |-> result]
          /\ identities' = IF result.ok THEN <<result.identity>> ELSE <<>>
    /\ UNCHANGED <<clock, built, covenant, tampering, verification, derivedVars, evolution,
                   identityVerification, matchVars, evalVars, rateVars, algebraVars, storeVars>>

\* let evolved = evolve_identity(&identity, opts), on the latest identity
EvolveIdentity ==
    /\ identities # <<>>
    /\ Len(identities) <= MaxEvolutions
    /\ \E opts \in EvolveOptions :
          LET result == evolve_identity(identities[Len(identities)], opts, clock) IN
          /\ evolution' = [called |-> TRUE, identity |-> identities[Len(identities)],
                           opts |-> opts, result |-> result]
          /\ identities' = IF result.ok THEN Append(identities, result.identity)
                           ELSE identities
    /\ UNCHANGED <<clock, built, covenant, tampering, verification, derivedVars, creation,
                   identityVerification, matchVars, evalVars, rateVars, algebraVars, storeVars>>

\* verify_identity(&identity), on the latest identity
VerifyIdentity ==
    /\ identities # <<>>
    /\ ~identityVerification.called \/ identityVerification.version # Len(identities)
    /\ identityVerification' =
           [called |-> TRUE, version |-> Len(identities),
            result |-> verify_identity(identities[Len(identities)])]
    /\ UNCHANGED <<clock, built, covenant, tampering, verification, derivedVars, creation,
                   identities, evolution, matchVars, evalVars, rateVars, algebraVars, storeVars>>

NextIdentity == CreateIdentity \/ EvolveIdentity \/ VerifyIdentity \/ Tick

SpecIdentity == InitIdentity /\ [][NextIdentity]_vars

(***************************************************************************)
(* SpecStore: a caller holds one MemoryStore and calls its Store methods   *)
(* in any order, with any id and document of a small pool.  put is given   *)
(* the id and the document separately, so the pool pairs every id with     *)
(* every document.                                                         *)
(***************************************************************************)
MaxStoreCalls == 3

StoreDocuments ==
    <<build_covenant(PlainOpts, <<"rand", 1>>, 1).document,
      build_covenant(PlainOpts, <<"rand", 2>>, 1).document>>

StoreKeys == {EmptyString} \cup {StoreDocuments[i].id : i \in DOMAIN StoreDocuments}

InitStore ==
    /\ documents = new
    /\ history = <<>>
    /\ storeCall = NoStoreCall
    /\ MatchUnused /\ EvalUnused /\ RateUnused /\ AlgebraUnused /\ CovenantUnused
    /\ IdentityUnused

StoreFrame ==
    UNCHANGED <<matchVars, evalVars, rateVars, algebraVars, covenantVars, identityVars>>

\* store.put(id, doc)
Put ==
    /\ Len(history) < MaxStoreCalls
    /\ \E id \in StoreKeys, i \in DOMAIN StoreDocuments :
          LET result == put(documents, id, StoreDocuments[i])
          IN  /\ documents' = result.documents
              /\ history' = Append(history, [method |-> "put", id |-> id,
                                             document |-> StoreDocuments[i],
                                             ok |-> result.ok])
              /\ storeCall' = [NoStoreCall EXCEPT !.method = "put", !.id = id,
                                                  !.document = StoreDocuments[i],
                                                  !.ok = result.ok,
                                                  !.error = result.error]
    /\ StoreFrame

\* store.delete(id)
Delete ==
    /\ Len(history) < MaxStoreCalls
    /\ \E id \in StoreKeys :
          LET result == delete(documents, id)
          IN  /\ documents' = result.documents
              /\ history' = Append(history, [method |-> "delete", id |-> id,
                                             document |-> NoDocument, ok |-> TRUE])
              /\ storeCall' = [NoStoreCall EXCEPT !.method = "delete", !.id = id,
                                                  !.flag = result.removed]
    /\ StoreFrame

\* store.get(id)
Get ==
    /\ \E id \in StoreKeys :
          storeCall' = [NoStoreCall EXCEPT !.method = "get", !.id = id,
                                           !.found = get(documents, id)]
    /\ UNCHANGED <<documents, history>>
    /\ StoreFrame

\* store.has(id)
Has ==
    /\ \E id \in StoreKeys :
          storeCall' = [NoStoreCall EXCEPT !.method = "has", !.id = id,
                                           !.flag = has(documents, id)]
    /\ UNCHANGED <<documents, history>>
    /\ StoreFrame

\* store.count()
Count ==
    /\ storeCall' = [NoStoreCall EXCEPT !.method = "count", !.number = count(documents)]
    /\ UNCHANGED <<documents, history>>
    /\ StoreFrame

\* store.list()
List ==
    /\ \E listed \in list(documents) :
          storeCall' = [NoStoreCall EXCEPT !.method = "list", !.listed = listed]
    /\ UNCHANGED <<documents, history>>
    /\ StoreFrame

NextStore == Put \/ Delete \/ Get \/ Has \/ Count \/ List

SpecStore == InitStore /\ [][NextStore]_vars

(***************************************************************************)
(* SpecWindow: a covenant with any expiresAt and activatesAt, in any of    *)
(* the spellings parse_timestamp tells apart, is built once and verified   *)
(* again and again while time passes.  A verify_covenant call is one       *)
(* instant: its chrono::Utc::now() reads return the same time.             *)
(***************************************************************************)
\* The last instant of the clock, and the instants the timestamps denote.
LastInstant == 4
WindowInstants == {2, 3}

WindowTimestamps ==
    {None, Some(Timestamp(0, "invalid"))}
        \cup {Some(Timestamp(instant, format)) :
                instant \in WindowInstants, format \in {"rfc3339", "lenient"}}

InitWindow ==
    /\ StoreUnused
    /\ clock = 1
    /\ built = NoBuild
    /\ covenant = NoDocument
    /\ tampering = NoTampering
    /\ verification = NoVerification
    /\ DerivedUnused
    /\ MatchUnused /\ EvalUnused /\ RateUnused /\ AlgebraUnused /\ IdentityUnused

\* let doc = build_covenant(opts)
BuildWindowed ==
    /\ ~built.called
    /\ \E expires_at \in WindowTimestamps, activates_at \in WindowTimestamps :
          LET opts == [PlainOpts EXCEPT !.expires_at = expires_at,
                                        !.activates_at = activates_at]
              result == build_covenant(opts, <<"rand", 1>>, clock)
          IN  /\ built' = [called |-> TRUE, opts |-> opts, result |-> result]
              /\ covenant' = result.document
    /\ UNCHANGED <<clock, tampering, verification, derivedVars, matchVars, evalVars,
                   rateVars, algebraVars, identityVars, storeVars>>

\* Time passes.
Elapse ==
    /\ clock < LastInstant
    /\ clock' = clock + 1
    /\ UNCHANGED <<built, covenant, tampering, verification, derivedVars, matchVars,
                   evalVars, rateVars, algebraVars, identityVars, storeVars>>

NextWindow == BuildWindowed \/ VerifyCovenant \/ Elapse

SpecWindow == InitWindow /\ [][NextWindow]_vars

(***************************************************************************)
(* C7                                                                      *)
(***************************************************************************)
\* The segments the matcher works on: actions split on ".", resources trimmed
\* of their leading and trailing "/" and split on "/".
SegmentsOf(fn, s) ==
    IF fn = "match_action" THEN split(s, ".") ELSE split(trim_matches(s, "/"), "/")

\* The target segments T can be cut at positions f[0] = 0 <= f[1] <= ... <=
\* f[Len(P)] = Len(T) so that pattern segment i covers T[f[i-1]+1 .. f[i]]:
\* any run for **, exactly one segment for *, exactly one equal segment for a
\* literal.
GlobCovers(P, T) ==
    \E f \in [0..Len(P) -> 0..Len(T)] :
        /\ f[0] = 0
        /\ f[Len(P)] = Len(T)
        /\ \A i \in 1..Len(P) :
              /\ f[i] >= f[i - 1]
              /\ \/ P[i] = DoubleStar
                 \/ /\ f[i] = f[i - 1] + 1
                    /\ (P[i] = Star \/ P[i] = T[f[i]])

\* C7: match_action and match_resource return true exactly when the target's
\* segments can be split among the pattern's segments, a literal and * taking
\* exactly one segment each and ** zero or more.
C7_GlobMatching ==
    matched # NoMatch =>
        (matched.result <=>
            GlobCovers(SegmentsOf(matched.fn, pattern), SegmentsOf(matched.fn, target)))

\* A pattern with ** in the middle that matches with ** covering no segment.
C7_Witness ==
    /\ matched # NoMatch
    /\ matched.fn = "match_action"
    /\ pattern = <<"a", ".", "*", "*", ".", "a">>
    /\ target = <<"a", ".", "a">>
    /\ matched.result = TRUE

(***************************************************************************)
(* C5, C6                                                                  *)
(***************************************************************************)
MatchingPermits == matching(doc.permits, request.action, request.resource, request.context)
MatchingDenies == matching(doc.denies, request.action, request.resource, request.context)
Elems(seq) == {seq[i] : i \in 1..Len(seq)}

\* C5: evaluate permits exactly when some permit matches whose specificity is
\* strictly greater than that of every matching deny.
C5_MostSpecificDenyWins ==
    evaluation.called =>
        (evaluation.result.permitted <=>
            \E p \in Elems(MatchingPermits) :
                \A d \in Elems(MatchingDenies) :
                    specificity(p.action, p.resource) > specificity(d.action, d.resource))

\* A permit and a deny of equal specificity both match, and the deny wins.
C5_Witness ==
    /\ evaluation.called
    /\ ~evaluation.result.permitted
    /\ \E p \in Elems(MatchingPermits) : \E d \in Elems(MatchingDenies) :
          /\ specificity(p.action, p.resource) = specificity(d.action, d.resource)
          /\ \A e \in Elems(MatchingDenies) :
                specificity(e.action, e.resource) <= specificity(p.action, p.resource)

\* C6: when no permit and no deny matches, evaluate denies, names no matched
\* rule and gives the default-deny reason.
C6_DefaultDeny ==
    (evaluation.called /\ MatchingPermits = <<>> /\ MatchingDenies = <<>>) =>
        /\ evaluation.result.permitted = FALSE
        /\ evaluation.result.matched_rule = None
        /\ evaluation.result.reason.text = DefaultDenyReason

\* Only an obligation matches the request, and the result is the default deny.
C6_Witness ==
    /\ evaluation.called
    /\ MatchingPermits = <<>> /\ MatchingDenies = <<>>
    /\ matching(doc.obligations, request.action, request.resource, request.context) # <<>>
    /\ evaluation.result.reason.text = DefaultDenyReason

(***************************************************************************)
(* C8, C9                                                                  *)
(***************************************************************************)
\* Limit i of doc.limits matches the metric, no matching limit is more
\* specific, and no earlier matching limit is as specific.
LimitMatches(i) == match_action(doc.limits[i].action, rateArgs.metric)
LimitSpecificity(i) == specificity(doc.limits[i].action, <<>>)
IsSelectedLimit(i) ==
    /\ LimitMatches(i)
    /\ \A j \in 1..Len(doc.limits) :
          LimitMatches(j) =>
              \/ LimitSpecificity(j) < LimitSpecificity(i)
              \/ LimitSpecificity(j) = LimitSpecificity(i) /\ j >= i

Max0(n) == IF n > 0 THEN n ELSE 0

\* C8: with a limit selected, the window has rolled exactly when now - start
\* is strictly greater than the period in ms, and the result is then
\* {exceeded: false, remaining: limit}; otherwise remaining is
\* max(0, limit - count) and exceeded is count >= limit.
C8_WindowRollover ==
    rateResult.called =>
        \A i \in 1..Len(doc.limits) :
            IsSelectedLimit(i) =>
                LET allowed == doc.limits[i].limit[1]
                    period_ms == doc.limits[i].period[1] * 1000
                IN  IF rateArgs.now_ms - rateArgs.window_start_ms > period_ms
                    THEN /\ rateResult.result.exceeded = FALSE
                         /\ rateResult.result.remaining = allowed
                    ELSE /\ rateResult.result.remaining = Max0(allowed - rateArgs.current_count)
                         /\ rateResult.result.exceeded = (rateArgs.current_count >= allowed)

\* A window exactly one period old has not rolled: the count still exceeds.
C8_Witness ==
    /\ rateResult.called
    /\ \E i \in 1..Len(doc.limits) :
          /\ IsSelectedLimit(i)
          /\ rateArgs.now_ms - rateArgs.window_start_ms = doc.limits[i].period[1] * 1000
          /\ rateArgs.current_count > doc.limits[i].limit[1]
    /\ rateResult.result.exceeded
    /\ rateResult.result.remaining = 0

\* C9: the limit enforced is the matching limit of greatest specificity, the
\* first in document order among equals; with no matching limit the result is
\* {exceeded: false, remaining: i64::MAX, limit: 0}.
C9_LimitSelection ==
    rateResult.called =>
        IF \E i \in 1..Len(doc.limits) : LimitMatches(i)
        THEN \E i \in 1..Len(doc.limits) :
                IsSelectedLimit(i) /\ rateResult.result.limit = doc.limits[i].limit[1]
        ELSE rateResult.result = [exceeded |-> FALSE, remaining |-> I64_MAX, limit |-> 0]

\* Two matching limits of the same, greatest specificity and different counts:
\* the first one is enforced.
C9_Witness ==
    /\ rateResult.called
    /\ Len(doc.limits) = 2
    /\ LimitMatches(1) /\ LimitMatches(2)
    /\ LimitSpecificity(1) = LimitSpecificity(2)
    /\ doc.limits[1].limit # doc.limits[2].limit
    /\ rateResult.result.limit = doc.limits[1].limit[1]

(***************************************************************************)
(* C3, C4                                                                  *)
(***************************************************************************)
NarrowRequests ==
    [action : {ActRead, ActWrite}, resource : {ResSecret, ResPublic}, context : {<<>>}]
Permitted(d, req) == evaluate(d, req.action, req.resource, req.context).permitted
MatchedByDeny(d, req) ==
    \E i \in 1..Len(d.denies) :
        statement_matches(d.denies[i], req.action, req.resource, req.context)

\* C3: when validate_narrowing accepts the child, every request the child
\* permits is permitted by the parent, and no request matched by a parent deny
\* is permitted by the child.
C3_NarrowingGuarantee ==
    (narrowing.called /\ narrowing.result.valid) =>
        \A req \in NarrowRequests :
            /\ Permitted(child, req) => Permitted(parent, req)
            /\ MatchedByDeny(parent, req) => ~Permitted(child, req)

\* C4: validate_narrowing accepts the child exactly when every child permit
\* overlaps no parent deny on both action and resource and is covered, in
\* action and resource, by some parent permit.
C4_NarrowingIff ==
    narrowing.called =>
        (narrowing.result.valid <=>
            \A i \in 1..Len(child.permits) :
                /\ \A j \in 1..Len(parent.denies) :
                      ~denied_by(child.permits[i], parent.denies[j])
                /\ \E j \in 1..Len(parent.permits) :
                      covered_by(child.permits[i], parent.permits[j]))

(***************************************************************************)
(* C10                                                                     *)
(***************************************************************************)
LimitActions(d) == {d.limits[i].action : i \in 1..Len(d.limits)}
LimitCounts(d, a) == {d.limits[i].limit[1] : i \in {k \in 1..Len(d.limits) : d.limits[k].action = a}}
Least(S) == CHOOSE n \in S : \A m \in S : n <= m

\* C10: the merged document holds exactly one limit for each limit action of
\* parent or child, with the lowest count any of their limits gives that
\* action, and no limit for any other action.
C10_MergeLimits ==
    merged.called =>
        /\ LimitActions(merged.result) = LimitActions(parent) \cup LimitActions(child)
        /\ \A a \in LimitActions(parent) \cup LimitActions(child) :
              /\ Cardinality({i \in 1..Len(merged.result.limits) :
                                 merged.result.limits[i].action = a}) = 1
              /\ LimitCounts(merged.result, a)
                    = {Least(LimitCounts(parent, a) \cup LimitCounts(child, a))}

\* Parent and child both limit api.call, the child lower, another action is
\* limited by one side only: the merged document keeps the child's count.
C10_Witness ==
    /\ merged.called
    /\ LimitCounts(parent, MetricCall) = {100}
    /\ LimitCounts(child, MetricCall) = {50}
    /\ LimitActions(parent) = {MetricCall, MetricOther}
    /\ LimitActions(child) = {MetricCall}
    /\ LimitCounts(merged.result, MetricCall) = {50}
    /\ Len(merged.result.limits) = 2

(***************************************************************************)
(* C11                                                                     *)
(***************************************************************************)
\* C11: merge is deterministic: called again with the same parent and child,
\* it returns the same document, statements and limits in the same order.
C11_MergeDeterministic ==
    [][(merged.called /\ merged'.called) => merged'.result = merged.result]_vars

(***************************************************************************)
(* C1, C2                                                                  *)
(***************************************************************************)
\* verify_covenant has just been applied to the document build_covenant returned.
VerifiedAsBuilt == built.result.ok /\ tampering = NoTampering /\ verification.called

\* issuer.publicKey spells, in hex of either case, the verifying key of the signing key.
SignedByIssuer ==
    hex_decode(built.opts.issuer.public_key) = Some(verifying_key(built.opts.signing_key))

\* The instant a timestamp option denotes, if it is set and can be read.
InstantOf(option) == IF option = None THEN None ELSE parse_timestamp(option[1])

\* The instant lies in the validity window of the built document.
InWindow(instant) ==
    /\ InstantOf(built.opts.expires_at) # None => instant < InstantOf(built.opts.expires_at)[1]
    /\ InstantOf(built.opts.activates_at) # None =>
          instant >= InstantOf(built.opts.activates_at)[1]

\* C1 as stated: every document build_covenant returns verifies as valid,
\* whatever the keys, the chain, expiresAt, activatesAt and the metadata.
C1_BuiltVerifies == VerifiedAsBuilt => verification.result.valid

\* C1: a document build_covenant returns verifies as valid when the signing
\* key is the private key of issuer.publicKey and the verification happens
\* before expiresAt and not before activatesAt (where set and readable).
C1_BuiltVerifiesInWindow ==
    (VerifiedAsBuilt /\ SignedByIssuer /\ InWindow(verification.at))
        => verification.result.valid

\* A document with a chain, metadata and an expiry, under an issuer key
\* written in upper case, built and then found valid.
C1_Witness ==
    /\ VerifiedAsBuilt /\ SignedByIssuer /\ InWindow(verification.at)
    /\ built.opts.chain # None /\ built.opts.metadata # None
    /\ built.opts.expires_at = Some(Timestamp(Deadline, "rfc3339"))
    /\ built.opts.issuer.public_key.spelling = "upper"
    /\ verification.result.valid

\* A field of a document that verified as valid was overwritten with a
\* different value, and the document has been verified again.
VerifiedAfterTampering ==
    /\ tampering.field \in {"id", "signature", "constraints", "nonce", "created_at"}
    /\ covenant[tampering.field] # built.result.document[tampering.field]
    /\ tampering.was_valid
    /\ verification.called

\* The signature was overwritten with another spelling of the same bytes.
SignatureRespelled ==
    /\ tampering.field = "signature"
    /\ hex_decode(covenant.signature) = hex_decode(built.result.document.signature)

\* C2 as stated: after any different value is written to id, signature,
\* constraints, nonce or createdAt of a valid document, it verifies as invalid.
C2_TamperDetected == VerifiedAfterTampering => ~verification.result.valid

\* C2: after a different value is written to id, constraints, nonce or
\* createdAt of a valid document, or a signature that decodes to different
\* bytes (or does not decode), the document verifies as invalid.
C2_TamperDetectedUnlessRespelled ==
    (VerifiedAfterTampering /\ ~SignatureRespelled) => ~verification.result.valid

\* A valid document whose signature was replaced by the signature of another
\* key over the same canonical form, and which then failed verification.
C2_Witness ==
    /\ VerifiedAfterTampering
    /\ tampering.field = "signature"
    /\ covenant.signature = hex_encode(sign(canonical_form(covenant), "bob"))
    /\ ~verification.result.valid

(***************************************************************************)
(* C12                                                                     *)
(***************************************************************************)
CheckNames ==
    <<"id_match", "signature_valid", "not_expired", "active", "ccl_parses",
      "enforcement_valid", "proof_valid", "chain_depth", "document_size",
      "countersignatures", "nonce_present">>
ChecksOf(result) == result.checks
FailedChecks(result) == {i \in DOMAIN result.checks : ~result.checks[i].passed}

SignatureOverwritten ==
    /\ tampering.field = "signature"
    /\ covenant = [built.result.document EXCEPT !.signature = covenant.signature]
    /\ covenant.signature # built.result.document.signature
    /\ verification.called
    /\ verification.at = tampering.before.at

\* The new signature spells the issuer's signature over the canonical form.
SpellsIssuerSignature ==
    \E sk \in SigningKeys :
        /\ hex_decode(covenant.issuer.public_key) = Some(verifying_key(sk))
        /\ hex_decode(covenant.signature) = Some(sign(canonical_form(covenant), sk))

\* signature_valid fails, valid is false, and the other ten checks pass or
\* fail as they did before.
SignatureAloneFails ==
    /\ ~verification.result.checks[2].passed
    /\ ~verification.result.valid
    /\ \A i \in 1..11 \ {2} :
          verification.result.checks[i].passed = tampering.before.result.checks[i].passed

RestoredVerified == restored.called /\ reverified.of = "restored"

\* C14: a document that is serialized and deserialized comes back with the
\* id it had and, verified at the same instant, with the valid flag it had.
C14_RoundTrip ==
    restored.called =>
        /\ restored.result.ok
        /\ restored.result.document.id = covenant.id
        /\ (verification.called /\ RestoredVerified) =>
               reverified.result.valid = verification.result.valid

\* The round trip that is not the identity: metadata that is the JSON null.
C14_NullMetadataLost ==
    /\ restored.called
    /\ covenant.metadata # None
    /\ covenant.metadata[1].json = "null"
    /\ restored.result.document.metadata = None

(***************************************************************************)
(* C19, C20                                                                *)
(***************************************************************************)
CountersignaturesOf(document) == unwrap_or(document.countersignatures, <<>>)

\* C19: a call of countersign_covenant leaves the held document and every
\* document returned before unchanged, and returns a document whose
\* countersignatures are those of its input with one entry appended, every
\* other field being the input's.
C19_CountersignFrame ==
    [][countersigned' # countersigned =>
          LET input == latest(countersigned, covenant)
              output == latest(countersigned', covenant')
          IN  /\ covenant' = covenant
              /\ Len(countersigned') = Len(countersigned) + 1
              /\ SubSeq(countersigned', 1, Len(countersigned)) = countersigned
              /\ output.countersignatures # None
              /\ Len(CountersignaturesOf(output)) = Len(CountersignaturesOf(input)) + 1
              /\ SubSeq(CountersignaturesOf(output), 1, Len(CountersignaturesOf(input)))
                     = CountersignaturesOf(input)
              /\ \A field \in DOMAIN input \ {"countersignatures"} :
                     output[field] = input[field]]_vars

\* A held document that carried a countersignature has been countersigned
\* twice more.
C19_Witness ==
    /\ Len(CountersignaturesOf(covenant)) = 1
    /\ Len(countersigned) = 2
    /\ Len(CountersignaturesOf(countersigned[2])) = 3

CountersignedVerified ==
    /\ verification.called
    /\ verification.result.valid
    /\ reverified.of = "countersigned"

\* C20: a document that verifies still verifies, at the same instant, after
\* any number of countersign_covenant calls with generated key pairs.
C20_CountersignPreservesValidity ==
    CountersignedVerified => reverified.result.valid

\* C20, for what the calls do preserve: every check but document_size still
\* passes, and document_size passes as long as the countersigned document is
\* no longer than MAX_DOCUMENT_SIZE.
C20_CountersignPreservesButSize ==
    CountersignedVerified =>
        /\ FailedChecks(reverified.result) \subseteq {9}
        /\ reverified.result.valid =
               (serialized_len(countersigned[reverified.calls]) <= MAX_DOCUMENT_SIZE)

\* A valid document countersigned twice by generated keys verifies.
C20_Witness ==
    /\ CountersignedVerified
    /\ reverified.calls = 2
    /\ reverified.result.valid

(***************************************************************************)
(* C15                                                                     *)
(***************************************************************************)
\* The key that made the signature of an identity is the one its
\* operator_public_key spells.
SignedByOperator(identity) ==
    hex_decode(identity.operator_public_key)
        = Some(verifying_key(hex_decode(identity.signature)[1][2]))

\* C15: the identity returned by create_identity and by any number of
\* successful evolve_identity calls after it verifies.
C15_EvolvedVerifies ==
    identityVerification.called => identityVerification.result.valid

\* C15, for the signing keys that do verify: the identity verifies exactly
\* when the call that returned it signed with the operator's key.
C15_EvolvedVerifiesIffOperatorSigned ==
    identityVerification.called =>
        identityVerification.result.valid
            = SignedByOperator(identities[identityVerification.version])

\* An identity created under a key that is not the operator's, and so
\* invalid, verifies after two evolutions, the last signed by the operator.
C15_Witness ==
    /\ identityVerification.called
    /\ identityVerification.version = 3
    /\ identityVerification.result.valid
    /\ ~SignedByOperator(identities[1])

(***************************************************************************)
(* C16, C17                                                                *)
(***************************************************************************)
\* C16: in every identity returned, version is the length of the lineage,
\* the first entry has no parent hash and the change type "created", and
\* every later entry has the identity hash of the entry before it as its
\* parent hash.
C16_LineageWellFormed ==
    \A k \in DOMAIN identities :
        LET lineage == identities[k].lineage IN
        /\ identities[k].version = Len(lineage)
        /\ lineage # <<>>
        /\ lineage[1].parent_hash = None
        /\ lineage[1].change_type = "created"
        /\ \A i \in 2..Len(lineage) :
               lineage[i].parent_hash = Some(lineage[i - 1].identity_hash)

\* An identity evolved twice: three entries, two links.
C16_Witness ==
    /\ Len(identities) = 3
    /\ Len(identities[3].lineage) = 3
    /\ identities[3].lineage[3].parent_hash # None

\* The body of the identity that received entry i of a lineage, with the
\* entries up to and including entry n.
BodyAtEntry(i, n) ==
    identity_body([identities[i] EXCEPT !.lineage = SubSeq(@, 1, n)])

\* C17: the identity hash of every lineage entry is the hash of the body of
\* the identity once that entry was appended to the lineage, the id not yet
\* assigned.
C17_HashAfterAppend ==
    \A k \in DOMAIN identities :
        \A i \in DOMAIN identities[k].lineage :
            identities[k].lineage[i].identity_hash
                = compute_identity_hash(BodyAtEntry(i, i))

\* C17, as the two passes go: the identity hash of every lineage entry is the
\* hash of the body before that entry was appended, and the hash of the
\* body after it was appended is the id.
C17_HashBeforeAppend ==
    \A k \in DOMAIN identities :
        /\ identities[k].id = compute_identity_hash(BodyAtEntry(k, k))
        /\ \A i \in DOMAIN identities[k].lineage :
               identities[k].lineage[i].identity_hash
                   = compute_identity_hash(BodyAtEntry(i, i - 1))

\* Three identities, the last with three entries whose hashes differ.
C17_Witness ==
    /\ Len(identities) = 3
    /\ Cardinality({identities[3].lineage[i].identity_hash : i \in 1..3}) = 3

(***************************************************************************)
(* C18                                                                     *)
(***************************************************************************)
IsPrefix(short, long) ==
    Len(short) <= Len(long) /\ SubSeq(long, 1, Len(short)) = short

\* C18: a call of evolve_identity leaves its input and every identity
\* returned before unchanged; with an empty change type or description it
\* returns InvalidInput and no identity; otherwise it returns an identity
\* with the operator key and creation time of its input, the next version,
\* and the lineage of its input with one entry appended.
C18_EvolveFrame ==
    [][evolution' # evolution =>
          LET prev == identities[Len(identities)]
              opts == evolution'.opts
              result == evolution'.result
          IN  /\ evolution'.identity = prev
              /\ IsPrefix(identities, identities')
              /\ IF opts.change_type = "" \/ opts.description = ""
                 THEN /\ ~result.ok
                      /\ result.kind = "InvalidInput"
                      /\ identities' = identities
                 ELSE /\ result.ok
                      /\ identities' = Append(identities, result.identity)
                      /\ result.identity.operator_public_key = prev.operator_public_key
                      /\ result.identity.created_at = prev.created_at
                      /\ result.identity.version = prev.version + 1
                      /\ Len(result.identity.lineage) = Len(prev.lineage) + 1
                      /\ IsPrefix(prev.lineage, result.identity.lineage)]_vars

\* An identity evolved twice, the second time at a later instant than it was
\* created and with every field overridden.
C18_Witness ==
    /\ evolution.called
    /\ evolution.result.ok
    /\ Len(identities) = 3
    /\ evolution.opts.model # None
    /\ identities[3].created_at = identities[1].created_at
    /\ identities[3].lineage[3].timestamp # identities[1].created_at

(***************************************************************************)
(* C21                                                                     *)
(***************************************************************************)
Passed(result) == [i \in DOMAIN result.checks |-> result.checks[i].passed]
ReorderedVerified == reordering.called /\ verification.called

\* C21: a document whose countersignatures were put in another order
\* verifies with the same valid flag and the same pass or fail of each of the
\* eleven checks as before.
C21_OrderInsensitive ==
    ReorderedVerified =>
        /\ verification.result.valid = reordering.before.result.valid
        /\ Passed(verification.result) = Passed(reordering.before.result)
        /\ Len(verification.result.checks) = 11

\* A list of a forged and two good countersignatures, with the forged one
\* moved from the first to the last place: the check fails before and after.
C21_Witness ==
    /\ ReorderedVerified
    /\ reordering.order = <<2, 3, 1>>
    /\ ~verification.result.checks[10].passed
    /\ verification.result.checks[9].passed

(***************************************************************************)
(* C22, C23, C29                                                           *)
(***************************************************************************)
\* The matcher validate_narrowing pairs with a separator, and the concrete
\* strings it is asked about.
matches(pat, concrete, separator) ==
    IF separator = "." THEN match_action(pat, concrete) ELSE match_resource(pat, concrete)
Concretes(separator) == IF separator = "." THEN ActionTargets ELSE ResourceTargets
MatchedByBoth ==
    {t \in Concretes(pair.separator) :
        matches(pair.first, t, pair.separator) /\ matches(pair.second, t, pair.separator)}

\* C22: patterns_overlap returns true whenever some concrete string matches
\* both patterns.
C22_OverlapComplete ==
    pairResult.fn = "patterns_overlap" => (MatchedByBoth # {} => pairResult.result)

\* C23: is_subset_pattern of a pattern and itself returns true.
C23_SubsetReflexive ==
    (pairResult.fn = "is_subset_pattern" /\ pair.first = pair.second) => pairResult.result

\* A pattern with ** in the middle and at the end, against itself.
C23_Witness ==
    /\ pairResult.fn = "is_subset_pattern"
    /\ pair.first = pair.second
    /\ pair.first = join(<<<<"a">>, DoubleStar, DoubleStar>>, ".")
    /\ pairResult.result

\* C29: when is_subset_pattern returns true, every concrete string the child
\* pattern matches is matched by the parent pattern.
C29_SubsetSound ==
    (pairResult.fn = "is_subset_pattern" /\ pairResult.result) =>
        \A t \in Concretes(pair.separator) :
            matches(pair.first, t, pair.separator) => matches(pair.second, t, pair.separator)


(***************************************************************************)
(* C24, C25, C26: the MemoryStore                                          *)
(***************************************************************************)

\* What a map holds under the id after the calls: the document of the last
\* successful put of the id that no delete of the id followed, if any.
RECURSIVE Held(_, _)
Held(calls, id) ==
    IF calls = <<>> THEN None
    ELSE LET call == calls[Len(calls)]
         IN  IF call.id = id /\ call.method = "delete" THEN None
             ELSE IF call.id = id /\ call.method = "put" /\ call.ok THEN Some(call.document)
             ELSE Held(SubSeq(calls, 1, Len(calls) - 1), id)

HeldIds(calls) == {id \in StoreKeys : Held(calls, id) # None}

Before(calls) == SubSeq(calls, 1, Len(calls) - 1)

\* C24: under any sequence of put, delete, get, has, count and list the
\* MemoryStore behaves as a map: get(id) is the document of the most recent
\* successful put(id) not followed by delete(id), and none otherwise; has(id)
\* holds exactly when get(id) is present; count() is the number of such ids
\* and the length of list(); a put on an id already present leaves count as
\* it was; delete(id) returns true iff the id was present just before.
C24_MapBehaviour ==
    /\ \A id \in StoreKeys :
          /\ get(documents, id) = Held(history, id)
          /\ has(documents, id) <=> get(documents, id) # None
    /\ count(documents) = Cardinality(HeldIds(history))
    /\ \A listed \in list(documents) : Len(listed) = count(documents)
    /\ storeCall.method = "get" => storeCall.found = Held(history, storeCall.id)
    /\ storeCall.method = "has" => storeCall.flag = (Held(history, storeCall.id) # None)
    /\ storeCall.method = "count" => storeCall.number = Cardinality(HeldIds(history))
    /\ storeCall.method = "list" => Len(storeCall.listed) = Cardinality(HeldIds(history))
    /\ storeCall.method = "put" /\ storeCall.ok /\ storeCall.id \in HeldIds(Before(history))
          => /\ count(documents) = Cardinality(HeldIds(Before(history)))
             /\ get(documents, storeCall.id) = Some(storeCall.document)
    /\ storeCall.method = "delete"
          => storeCall.flag = (storeCall.id \in HeldIds(Before(history)))

\* A put has replaced the document held under an id while another id is
\* held too, and a later get of the id returned the new document.
C24_Witness ==
    /\ storeCall.method = "get" /\ storeCall.found # None
    /\ count(documents) = 2
    /\ \E i \in 1..Len(history) :
          /\ history[i].method = "put" /\ history[i].id = storeCall.id
          /\ history[i].document # storeCall.found[1]

\* C25: a put with an empty id returns a StorageError and leaves the store
\* as it was: count, has, get and list give what they gave before it.
C25_EmptyIdRejected ==
    [][(/\ history' # history
        /\ storeCall'.method = "put"
        /\ is_empty(storeCall'.id))
       => /\ ~storeCall'.ok
          /\ storeCall'.error = "StorageError"
          /\ count(documents') = count(documents)
          /\ list(documents') = list(documents)
          /\ \A id \in StoreKeys :
                /\ has(documents', id) = has(documents, id)
                /\ get(documents', id) = get(documents, id)]_vars

\* A put with an empty id was refused by a store that holds a document.
C25_Witness ==
    /\ storeCall.method = "put" /\ is_empty(storeCall.id) /\ ~storeCall.ok
    /\ count(documents) > 0

\* C26: after any sequence of store operations every document held under a
\* key k has its id field equal to k.
C26_KeyedByContentId ==
    \A k \in DOMAIN documents : documents[k].id = k


(***************************************************************************)
(* C27: optional fields without a value in the JSON                        *)
(***************************************************************************)

\* The optional members of a covenant document.
OptionalKeys == {"chain", "expiresAt", "activatesAt", "countersignatures", "metadata"}

\* The keys of the wire form of a covenant document.
WireKeys(document) ==
    {serialize_covenant(document)[i][1] : i \in DOMAIN serialize_covenant(document)}

\* The JSON objects of the lineage entries in a JSON object of an identity.
EntryObjects(object) == object.value["lineage"].value

\* C27: in the JSON of covenants and identities, the wire form and the body
\* that is canonicalized for hashing and signing, every optional field that
\* has no value (chain, expiresAt, activatesAt, countersignatures, metadata,
\* the parentHash of a lineage entry) is omitted, never serialized as null.
C27_AbsentOmitted ==
    /\ \A n \in DOMAIN identities :
          \A i \in DOMAIN identities[n].lineage :
              identities[n].lineage[i].parent_hash = None =>
                  /\ "parentHash" \notin
                        DOMAIN EntryObjects(identity_value(identities[n]))[i].value
                  /\ "parentHash" \notin
                        DOMAIN EntryObjects(identity_body(identities[n]))[i].value
    /\ \A i \in DOMAIN HeldOpts :
          \A key \in OptionalKeys :
              ~is_serialized(BuiltDocument(i), key) =>
                  /\ key \notin WireKeys(BuiltDocument(i))
                  /\ key \notin DOMAIN to_value(BuiltDocument(i)).value


(***************************************************************************)
(* C28: the time checks and the validity window                            *)
(***************************************************************************)

\* The check of the name in a VerificationResult passed.
CheckPassed(result, name) ==
    \E i \in DOMAIN result.checks : result.checks[i].name = name /\ result.checks[i].passed

\* Every check of the result but not_expired and active passed.
OtherChecksPassed(result) ==
    \A i \in DOMAIN result.checks :
        result.checks[i].name \notin {"not_expired", "active"} => result.checks[i].passed

\* The timestamp is absent or is a text that denotes no instant.
Unbounded(option) == option = None \/ option[1].format = "invalid"

BeforeExpiry(now) ==
    Unbounded(covenant.expires_at) \/ now < covenant.expires_at[1].instant
FromActivation(now) ==
    Unbounded(covenant.activates_at) \/ now >= covenant.activates_at[1].instant

\* C28: with a clock that never goes back, not_expired passes iff expiresAt
\* is absent, unparseable, or now < expiresAt; active passes iff activatesAt
\* is absent, unparseable, or now >= activatesAt; a document whose other
\* checks pass is valid at exactly the instants activatesAt <= now < expiresAt;
\* and once not_expired has failed it fails at every later instant.
C28_ValidityWindow ==
    /\ [](verification.called =>
            /\ CheckPassed(verification.result, "not_expired")
                  <=> BeforeExpiry(verification.at)
            /\ CheckPassed(verification.result, "active")
                  <=> FromActivation(verification.at)
            /\ OtherChecksPassed(verification.result) =>
                  (verification.result.valid
                      <=> BeforeExpiry(verification.at) /\ FromActivation(verification.at)))
    /\ [][(/\ verification.called /\ verification'.called
           /\ ~CheckPassed(verification.result, "not_expired"))
          => ~CheckPassed(verification'.result, "not_expired")]_vars

\* A document with a window of one instant, read from a timestamp in each
\* spelling, was found valid inside the window.
C28_Witness ==
    /\ verification.called /\ verification.result.valid
    /\ ~Unbounded(covenant.expires_at) /\ ~Unbounded(covenant.activates_at)
    /\ covenant.expires_at[1].format # covenant.activates_at[1].format
    /\ covenant.activates_at[1].instant = verification.at
    /\ covenant.expires_at[1].instant = verification.at + 1


(***************************************************************************)
(* C30: merge never widens access                                          *)
(***************************************************************************)

\* evaluate of the parent and of the child on the request the merged
\* document was evaluated on.
OnRequest(d) == evaluate(d, request.action, request.resource, request.context)

\* The specificity of the rule an evaluation matched.
WinnerSpecificity(result) ==
    specificity(result.matched_rule[1].action, result.matched_rule[1].resource)

\* A deny won the evaluation.
DenyWon(result) ==
    result.matched_rule # None /\ result.matched_rule[1].stmt_type = Deny

\* C30: if evaluate(merge(parent, child)) is permitted then evaluate(parent)
\* or evaluate(child) is permitted, and a deny of either side that wins in
\* its own document at specificity s blocks every merged permit of
\* specificity <= s: a permit that wins the merged evaluation is more
\* specific than s.
C30_MergeNeverWidens ==
    evaluation.called =>
        /\ evaluation.result.permitted =>
              OnRequest(parent).permitted \/ OnRequest(child).permitted
        /\ \A side \in {parent, child} :
              DenyWon(OnRequest(side)) /\ evaluation.result.permitted =>
                  WinnerSpecificity(evaluation.result) > WinnerSpecificity(OnRequest(side))

\* The merged document permits a request that a deny of the parent decides
\* in the parent, through a more specific permit of the child.
C30_Witness ==
    /\ evaluation.called /\ evaluation.result.permitted
    /\ DenyWon(OnRequest(parent))
    /\ OnRequest(child).permitted
    /\ child.denies = <<>>

====
